---- MODULE Spec2Model ----
(***************************************************************************)
(* Order-status slice of the Printo customer-support assistant:            *)
(*   - phone-extractor.js        extractPhoneNumber and its wrapper        *)
(*   - existing-order/pia-client (src/unnamed/part_003) filterActiveOrders *)
(*     and the standalone extractPhoneNumber                               *)
(*   - pia-api-client            (src/unnamed/part_005) searchByMobile,    *)
(*     handleError, getActiveOrders                                        *)
(*   - order-status-formatter.js formatOrdersPage, formatOrdersForWhatsApp *)
(*   - server.js                 the session map, /api/chat, the sweep     *)
(*                                                                         *)
(* Strings that the code inspects character by character are sequences of  *)
(* character codes: 0..9 are the digits '0'..'9', SP is a blank, PLUS is   *)
(* '+', LETTER stands for any other non-digit character.                   *)
(***************************************************************************)
EXTENDS Integers, Sequences, FiniteSets, TLC

VARIABLES
    \* ---- a customer message and one call of extractPhoneNumber on it
    text,       \* the message: a JS value [t |-> type, v |-> payload]
    typed,      \* how many pieces the customer has typed into it
    result,     \* what extractPhoneNumber returned, NoResult before the call
    \* ---- one request POST /api/existing-order/status {phone, message: text}
    reqPhone,   \* the phone field of the body (a JS value)
    piaQuery,   \* the calls piaClient.getActiveOrders(phone) made: their arguments
    response,   \* the HTTP answer, NoResponse before it is sent
    \* ---- an upstream order list and the two "active orders" filters
    data,           \* the raw order list PIA answered with
    activeOrders,   \* what PIAClient.filterActiveOrders(data) returned
    activeRaw,      \* what PIAClient.getActiveOrders(data) returned
    filterPc,       \* which of the two filters have run
    \* ---- one call formatOrdersPage(orders, page, pageSize)
    orderList,  \* the order list handed to the formatter
    pageArg,    \* the page asked for
    clockDay,   \* the calendar day of the call (a day number)
    pageResult, \* the returned {text, hasMore, hasPrev, currentPage, totalPages}
    \* ---- server.js : the process serving /api/chat
    now,                    \* Date.now(), in hours
    sessionConversations,   \* the session map: session id -> session, or NoSession
    lastEvent,              \* the handler or timer that ran last, with its HTTP answer
    \* ---- one call of each order client with the same upstream answer
    piaAnswer,  \* what the HTTP call to PIA yields: a response or an error
    searchOutcome,  \* the outcome of getOrdersByMobile(mobile) (pia-api-client.js)
    fetchOutcome,   \* the outcome of piaClient.getActiveOrders(phone) (existing-order)
    \* ---- /api/chat requests served concurrently, one step per run to the next await
    requests,   \* request -> its position in the handler and its local variables
    history,    \* session id -> session.messages, as the requests that pushed to it
    \* ---- one call botSpaceService.sendMessageWithRetry(phone, message, maxRetries)
    retry       \* its position, its counters, and what it has done so far

phoneVars == <<text, typed, result>>
standaloneVars == <<reqPhone, piaQuery, response>>
filterVars == <<data, activeOrders, activeRaw, filterPc>>
pageVars == <<orderList, pageArg, clockDay, pageResult>>
serverVars == <<now, sessionConversations, lastEvent>>
clientVars == <<piaAnswer, searchOutcome, fetchOutcome>>
concVars == <<requests, history>>
retryVars == <<retry>>
vars == <<phoneVars, standaloneVars, filterVars, pageVars, serverVars, clientVars, concVars,
          retryVars>>

----------------------------------------------------------------------------
\* JavaScript values

\* (the payload v is always a sequence: the characters of a string, <<n>> for a
\* number, empty otherwise)
Null == [t |-> "null", v |-> <<>>]
Undefined == [t |-> "undefined", v |-> <<>>]
Str(chars) == [t |-> "string", v |-> chars]
Num(n) == [t |-> "number", v |-> <<n>>]

\* !x for the value kinds used here
Falsy(x) ==
    \/ x.t \in {"null", "undefined"}
    \/ x.t = "string" /\ x.v = <<>>
    \/ x.t = "number" /\ x.v = <<0>>

SP == 10
PLUS == 11
LETTER == 12

IsDigit(c) == c \in 0..9

\* /[6-9]/
IsMobileLead_from5(c) == c \in 5..9
IsMobileLead(c) == c \in 6..9

----------------------------------------------------------------------------
\* String helpers

\* s.substring(from, to) with 0-based, clamped indices
Substring(s, from, to) ==
    LET f == IF from < 0 THEN 0 ELSE IF from > Len(s) THEN Len(s) ELSE from
        e == IF to < 0 THEN 0 ELSE IF to > Len(s) THEN Len(s) ELSE to
    IN  IF f <= e THEN SubSeq(s, f + 1, e) ELSE SubSeq(s, e + 1, f)

\* text.replace(/\D/g, '')
StripNonDigits(s) == SelectSeq(s, IsDigit)

\* s.indexOf(sub): 0-based index of the first occurrence, -1 if none
IndexOf(s, sub) ==
    LET hits == {i \in 0..(Len(s) - Len(sub)) : SubSeq(s, i + 1, i + Len(sub)) = sub}
    IN  IF hits = {} THEN -1 ELSE CHOOSE i \in hits : \A j \in hits : i <= j

\* /^[6-9]\d{9}$/.test(d) for a string of digits d
IsTenDigitMobile(d) == Len(d) = 10 /\ IsMobileLead(d[1])

----------------------------------------------------------------------------
\* phone-extractor.js

\* no value yet (the call has not returned)
NoResult ==
    [returned |-> FALSE, success |-> FALSE, hasPhone |-> FALSE, phone |-> <<>>, error |-> "null"]

\* the shapes extractPhoneNumber returns; phone: null is hasPhone = FALSE and
\* error: null is error = "null"
Found(p) ==
    [returned |-> TRUE, success |-> TRUE, hasPhone |-> TRUE, phone |-> p, error |-> "null"]
Failed(e) ==
    [returned |-> TRUE, success |-> FALSE, hasPhone |-> FALSE, phone |-> <<>>, error |-> e]

\* digitsOnly.substring(2): drop the country code
StripCountryCode_keeps91(d) == Substring(d, 0, 10)
StripCountryCode(d) == Substring(d, 2, Len(d))

\* First priority: the digits of the whole text are one 10-digit mobile
WholeIsMobile(digitsOnly) == IsTenDigitMobile(digitsOnly)

\* Second priority: /^91[6-9]\d{9}$/ on the digits of the whole text
WholeIsCountryCodeMobile(digitsOnly) ==
    /\ Len(digitsOnly) = 12
    /\ digitsOnly[1] = 9 /\ digitsOnly[2] = 1
    /\ IsMobileLead(digitsOnly[3])

\* Third priority: digitsOnly.match(/91[6-9]\d{9}(?!\d)/g): the 0-based starts of
\* the matches. digitsOnly holds digits only, so "not followed by a digit" is
\* "ends the string"
ccMatches(digitsOnly) ==
    {i \in 0..(Len(digitsOnly) - 12) :
        /\ digitsOnly[i + 1] = 9 /\ digitsOnly[i + 2] = 1
        /\ IsMobileLead(digitsOnly[i + 3])
        /\ i + 12 = Len(digitsOnly)}

\* Fourth priority: text.match(/(?:^|\D)([6-9]\d{9})(?:\D|$)/): the 1-based starts
\* of the capture group over all matches; the regex engine returns the leftmost
mobilePatternStarts(t) ==
    {g \in 1..(Len(t) - 9) :
        /\ g = 1 \/ ~IsDigit(t[g - 1])
        /\ IsMobileLead(t[g])
        /\ \A k \in g..(g + 9) : IsDigit(t[k])
        /\ g + 10 > Len(t) \/ ~IsDigit(t[g + 10])}

Min(S) == CHOOSE x \in S : \A y \in S : x <= y

\* the body of "if (match && match[1])": the verification against digitsOnly.
\* Yields Found(phone), or NoResult when the code falls through
VerifyInDigits(phone, digitsOnly) ==
    LET phoneInDigitsOnly == IndexOf(digitsOnly, phone)
        hasDigitBefore == phoneInDigitsOnly > 0
        hasDigitAfter == phoneInDigitsOnly + 10 < Len(digitsOnly)
        before == Substring(digitsOnly, phoneInDigitsOnly - 2, phoneInDigitsOnly)
    IN  IF phoneInDigitsOnly = -1 THEN NoResult
        ELSE IF hasDigitBefore /\ before = <<9, 1>> THEN Found(phone)
        ELSE IF ~hasDigitBefore /\ ~hasDigitAfter THEN Found(phone)
        ELSE NoResult

\* Last resort: digitsOnly.match(/[6-9]\d{9}/g): the 0-based starts of the
\* successive non-overlapping matches, leftmost first
RECURSIVE allTenDigitPatterns(_, _)
allTenDigitPatterns(digitsOnly, from) ==
    LET starts == {i \in from..(Len(digitsOnly) - 10) : IsMobileLead(digitsOnly[i + 1])}
    IN  IF starts = {} THEN <<>>
        ELSE LET i == Min(starts)
             IN  <<SubSeq(digitsOnly, i + 1, i + 10)>> \o allTenDigitPatterns(digitsOnly, i + 10)

LastResort_anyTenDigits(digitsOnly) ==
    IF Len(digitsOnly) >= 10 THEN Found(SubSeq(digitsOnly, 1, 10))
    ELSE Failed("No valid Indian mobile number found")
LastResort(digitsOnly) ==
    LET validNumbers == SelectSeq(allTenDigitPatterns(digitsOnly, 0), IsTenDigitMobile)
    IN  IF Len(validNumbers) > 0 THEN Found(validNumbers[1])
        ELSE Failed("No valid Indian mobile number found")

extractPhoneNumber(x) ==
    IF Falsy(x) \/ x.t # "string" THEN Failed("No text provided")
    ELSE
    LET t == x.v
        digitsOnly == StripNonDigits(t)
        cc == ccMatches(digitsOnly)
        starts == mobilePatternStarts(t)
        fourth == IF starts = {} THEN NoResult
                  ELSE VerifyInDigits(SubSeq(t, Min(starts), Min(starts) + 9), digitsOnly)
    IN  IF WholeIsMobile(digitsOnly) THEN Found(digitsOnly)
        ELSE IF WholeIsCountryCodeMobile(digitsOnly) THEN Found(StripCountryCode(digitsOnly))
        ELSE IF cc # {} THEN Found(StripCountryCode(SubSeq(digitsOnly, Min(cc) + 1, Min(cc) + 12)))
        ELSE IF fourth # NoResult THEN fourth
        ELSE LastResort(digitsOnly)

\* getPhoneFromBotspaceResponse: the phone, or <<>> for null
getPhoneFromBotspaceResponse(x) ==
    LET r == extractPhoneNumber(x) IN IF r.success THEN r.phone ELSE <<>>

\* isValidIndianMobile(phone)
isValidIndianMobile(phone) ==
    IF Falsy(phone) \/ phone.t # "string" THEN FALSE
    ELSE IF Len(phone.v) # 10 THEN FALSE
    ELSE IF phone.v[1] \notin 6..9 THEN FALSE
    ELSE \A i \in 1..10 : phone.v[i] \in 0..9

----------------------------------------------------------------------------
\* Customer messages: built from pieces a customer types

MaxPieces == 4

Mobiles ==
    { <<9, 8, 7, 6, 5, 4, 3, 2, 1, 0>>,
      <<9, 1, 9, 8, 7, 6, 5, 4, 3, 2>>,
      <<6, 1, 2, 3, 4, 5, 6, 7, 8, 9>> }

Pieces ==
    Mobiles \cup
    { <<9, 1>>, <<7>>, <<5, 6, 0, 0, 9, 1>>, <<1, 2, 3, 4, 5, 6>>,
      <<SP>>, <<PLUS>> }

PhoneInit ==
    /\ text \in {Str(<<>>), Null, Undefined, Num(0), Num(5)}
    /\ typed = 0
    /\ result = NoResult

NoResponse ==
    [status |-> 0, success |-> FALSE, error |-> "none",
     message |-> [kind |-> "none"], activeOrderCount |-> 0]

StandaloneIdle == reqPhone = Undefined /\ piaQuery = <<>> /\ response = NoResponse

FilterIdle ==
    data = <<>> /\ activeOrders = <<>> /\ activeRaw = <<>> /\ filterPc = {}

NoPageResult ==
    [returned |-> FALSE, text |-> <<>>, hasMore |-> FALSE, hasPrev |-> FALSE,
     hasPrevSet |-> FALSE, currentPage |-> 0, totalPages |-> 0]

PageIdle ==
    orderList = <<>> /\ pageArg = 0 /\ clockDay = 0 /\ pageResult = NoPageResult

SessionIds == {"session_1", "session_2"}

NoSession == [exists |-> FALSE]

\* nothing has run yet
\* no upstream call made
NoAnswer == [kind |-> "none", status |-> 0, data |-> "none", orders |-> <<>>]

\* status, orderStatus, ordersCount and text are the HTTP answer; the other
\* fields tell what the handler did on the way: whether the question held a
\* phone number, what PIA answered if asked, whether the LLM was called, and
\* whether the promise of its logConversation call settles
NoEvent ==
    [op |-> "none", sessionId |-> "none", status |-> 0, orderStatus |-> FALSE,
     ordersCount |-> 0, text |-> <<>>,
     hadPhone |-> FALSE, upstream |-> NoAnswer, llmCalled |-> FALSE, logCall |-> "none",
     threw |-> "none"]

\* the state of the process when it starts: new Map(), nothing served yet
ServerIdle ==
    /\ now = 0
    /\ sessionConversations = [id \in SessionIds |-> NoSession]
    /\ lastEvent = NoEvent

\* neither client has been called
NotCalled == [called |-> FALSE]
ClientIdle == piaAnswer = NoAnswer /\ searchOutcome = NotCalled /\ fetchOutcome = NotCalled

MaxRequests == 2
Requests == 1..MaxRequests
NoRequest == [pc |-> "idle"]
ConcIdle ==
    /\ requests = [r \in Requests |-> NoRequest]
    /\ history = [id \in SessionIds |-> <<>>]

\* sendMessageWithRetry has not been called
NotRetrying == [pc |-> "idle"]
RetryIdle == retry = NotRetrying

PhoneIdle == text = Null /\ typed = 0 /\ result = NoResult

\* the customer types one more piece
Type(piece) ==
    /\ text.t = "string"
    /\ ~result.returned
    /\ typed < MaxPieces
    /\ text' = Str(text.v \o piece)
    /\ typed' = typed + 1
    /\ UNCHANGED <<result, standaloneVars, retryVars, filterVars, pageVars, serverVars, clientVars, concVars>>

\* one call extractPhoneNumber(text)
Extract ==
    /\ ~result.returned
    /\ result' = extractPhoneNumber(text)
    /\ UNCHANGED <<text, typed, standaloneVars, retryVars, filterVars, pageVars, serverVars, clientVars, concVars>>

InitPhone == PhoneInit /\ StandaloneIdle /\ FilterIdle /\ PageIdle /\ ServerIdle
    /\ ClientIdle /\ ConcIdle /\ RetryIdle

NextPhone ==
    \/ \E piece \in Pieces : Type(piece)
    \/ Extract

SpecPhone == InitPhone /\ [][NextPhone]_vars

----------------------------------------------------------------------------
\* existing-order/pia-client.js (src/unnamed/part_003) and existing-order/webhook.js

\* digitsOnly.match(/([6-9]\d{9})/): the 0-based starts of the possible matches
firstTenDigitStarts(digitsOnly) ==
    {i \in 0..(Len(digitsOnly) - 10) : IsMobileLead(digitsOnly[i + 1])}

\* PIAClient.extractPhoneNumber(input): a JS value, Null when nothing is found.
\* A truthy input that is no string has no replace method: the call throws.
piaExtractThrows(input) == ~Falsy(input) /\ input.t # "string"

piaExtractPhoneNumber(input) ==
    IF Falsy(input) THEN Null
    ELSE
    LET digitsOnly == StripNonDigits(input.v)
        starts == firstTenDigitStarts(digitsOnly)
        phone == Substring(digitsOnly, 2, 12)
    IN  IF starts # {} THEN Str(SubSeq(digitsOnly, Min(starts) + 1, Min(starts) + 10))
        ELSE IF /\ Len(digitsOnly) >= 12
                /\ digitsOnly[1] = 9 /\ digitsOnly[2] = 1
                /\ IsTenDigitMobile(phone)
             THEN Str(phone)
        ELSE Null

PhoneFields == {Undefined, Str(<<>>), Str(<<9, 8, 7, 6, 5, 4, 3, 2, 1, 0>>), Str(<<1, 2, 3>>)}

\* outcomes of piaClient.getActiveOrders: it returns a list or throws
PiaOutcomes == {"orders", "PIA_TOKEN_EXPIRED", "PIA_TIMEOUT", "PIA_API_ERROR"}

\* A status string is a sequence of words
Words(ws) == [t |-> "string", v |-> ws]

\* String.prototype.toLowerCase, word by word
LowerWord(w) ==
    CASE w \in {"Delivered", "DELIVERED"} -> "delivered"
      [] w \in {"Completed", "COMPLETED"} -> "completed"
      [] w \in {"Cancelled", "CANCELLED"} -> "cancelled"
      [] w \in {"Dispatched", "DISPATCHED"} -> "dispatched"
      [] w = "Printing" -> "printing"
      [] w = "Error" -> "error"
      [] w = "ORDER" -> "order"
      [] OTHER -> w

toLowerCase(ws) == [i \in 1..Len(ws) |-> LowerWord(ws[i])]

\* String.prototype.includes, at the granularity of words
Includes(ws, sub) ==
    \E i \in 0..(Len(ws) - Len(sub)) : SubSeq(ws, i + 1, i + Len(sub)) = sub

Printing == Words(<<"Printing">>)

MinOf(a, b) == IF a < b THEN a ELSE b

\* an error answer of the handler: no metadata, the fixed message of the error
ErrorResponse(status, error) ==
    [NoResponse EXCEPT !.status = status, !.error = error,
                       !.message = [kind |-> "error", of |-> error]]

MaxActiveOrders == 6

\* how many active orders a successful lookup returns: none, one (the
\* single-order sentence), several, and more than the fallback lists
ActiveOrderCounts == {0, 1, 2, MaxActiveOrders}

\* the active orders a successful lookup returns: the k-th has jobId k
ActiveOrder(k) ==
    [jobId |-> k,
     status |-> IF k % 2 = 1 THEN Printing ELSE Words(<<"Ready", "for", "Pickup">>)]

ActiveOrders(n) == [k \in 1..n |-> ActiveOrder(k)]

\* message-generator.js, mapStatusForDisplay(status); of the production
\* keywords the statuses of this model can only hold 'printing'
mapStatusForDisplay(status) ==
    IF Falsy(status) THEN Words(<<"Processing">>)
    ELSE IF Includes(toLowerCase(status.v), <<"printing">>) THEN Words(<<"In", "Production">>)
    ELSE status

\* activeOrders.slice(0, 5)
FallbackListed_all(active) == active
FallbackListed(active) == SubSeq(active, 1, MinOf(5, Len(active)))

\* message-generator.js, getFallbackMessage(activeOrders): the count it
\* announces (none for a single order) and the orders it names
getFallbackMessage(active) ==
    IF Len(active) = 1
    THEN [kind |-> "fallback", announced |-> 0,
          named |-> <<[jobId |-> active[1].jobId,
                       displayStatus |-> mapStatusForDisplay(active[1].status)]>>]
    ELSE [kind |-> "fallback", announced |-> Len(active),
          named |-> [i \in 1..Len(FallbackListed(active)) |->
                       [jobId |-> FallbackListed(active)[i].jobId,
                        displayStatus |->
                            mapStatusForDisplay(FallbackListed(active)[i].status)]]]

\* message-generator.js, generateStatusMessage(activeOrders, phone): it catches
\* a failure of the OpenAI call itself and returns the fallback
generateStatusMessage(active, gptOk) ==
    IF Len(active) = 0 THEN [kind |-> "noActiveOrders"]
    ELSE IF gptOk THEN [kind |-> "gpt"]
    ELSE getFallbackMessage(active)

\* router.post('/existing-order/status'): the whole handler, the body being
\* {phone, message: text}. outcome is how the lookup ends, n the number of
\* active orders it returns, gptOk whether the OpenAI call succeeds
PostExistingOrderStatus(phone, outcome, n, gptOk) ==
    /\ response = NoResponse
    /\ reqPhone' = phone
    /\ LET message == text
           extracts == Falsy(phone) /\ ~Falsy(message)
           phoneNumber == IF extracts /\ ~piaExtractThrows(message)
                          THEN piaExtractPhoneNumber(message) ELSE phone
       IN  IF extracts /\ piaExtractThrows(message)
           THEN /\ response' = ErrorResponse(500, "INTERNAL_ERROR")
                /\ UNCHANGED piaQuery
           ELSE IF Falsy(phoneNumber)
           THEN /\ response' = ErrorResponse(400, "INVALID_PHONE")
                /\ UNCHANGED piaQuery
           ELSE /\ piaQuery' = Append(piaQuery, phoneNumber)
                /\ response' =
                       IF outcome = "orders"
                       THEN [NoResponse EXCEPT
                               !.status = 200, !.success = TRUE,
                               !.message = generateStatusMessage(ActiveOrders(n), gptOk),
                               !.activeOrderCount = Len(ActiveOrders(n))]
                       ELSE ErrorResponse(500, "PIA_ERROR")
    /\ UNCHANGED <<phoneVars, retryVars, filterVars, pageVars, serverVars, clientVars, concVars>>

StandalonePieces ==
    Mobiles \cup {<<9, 1>>, <<1, 2, 3, 4, 5, 6>>, <<SP>>, <<PLUS>>}

InitStandalone == PhoneInit /\ StandaloneIdle /\ FilterIdle /\ PageIdle /\ ServerIdle
    /\ ClientIdle /\ ConcIdle /\ RetryIdle

NextStandalone ==
    \/ \E piece \in StandalonePieces : Type(piece)
    \/ \E phone \in PhoneFields, outcome \in PiaOutcomes :
         \E n \in IF outcome = "orders" THEN ActiveOrderCounts ELSE {0} :
         \E gptOk \in IF n > 0 THEN BOOLEAN ELSE {TRUE} :
            PostExistingOrderStatus(phone, outcome, n, gptOk)

SpecStandalone == InitStandalone /\ [][NextStandalone]_vars

\* C8: for every valid mobile s, a request whose message is "+91" + s or
\* "91" + s (and no phone field) queries the order API with exactly s.
C8_CountryCodeQueriesSameNumber ==
    \A s \in Mobiles :
        (/\ response # NoResponse
         /\ Falsy(reqPhone)
         /\ text \in {Str(<<PLUS, 9, 1>> \o s), Str(<<9, 1>> \o s)})
            => piaQuery = <<Str(s)>>

\* a JS value that is a 10-digit mobile number starting with 6-9
ValidMobile(value) == value.t = "string" /\ IsTenDigitMobile(value.v)

\* the body {phone, message} yields a valid mobile number: the phone field is
\* one, or the extraction from the message finds one
YieldsValidMobile(phone, message) ==
    \/ ValidMobile(phone)
    \/ /\ ~Falsy(message) /\ ~piaExtractThrows(message)
       /\ ValidMobile(piaExtractPhoneNumber(message))

\* C16: when neither the phone field nor the message of a request to
\* /api/existing-order/status yields a valid 10-digit mobile number, the
\* answer is 400 INVALID_PHONE and the order API is not queried; the order
\* API is only ever queried with a 10-digit number that starts with 6-9
C16_OnlyValidMobileQueried ==
    /\ (response # NoResponse /\ ~YieldsValidMobile(reqPhone, text))
           => /\ response.status = 400 /\ response.error = "INVALID_PHONE"
              /\ piaQuery = <<>>
    /\ \A i \in 1..Len(piaQuery) : ValidMobile(piaQuery[i])

\* C27: extractPhoneNumber returns either success = true with error = null and
\* a phone of ten digits that starts with 6-9 and is a contiguous substring of
\* the digits of the text, or success = false with phone = null and an error;
\* isValidIndianMobile holds for the phone of every successful result
C27_ResultIsValidMobileOrError ==
    result.returned =>
        \/ /\ result.success /\ result.hasPhone /\ result.error = "null"
           /\ Len(result.phone) = 10
           /\ result.phone[1] \in 6..9
           /\ \A i \in 1..10 : result.phone[i] \in 0..9
           /\ text.t = "string"
           /\ \E i \in 0..(Len(StripNonDigits(text.v)) - 10) :
                  SubSeq(StripNonDigits(text.v), i + 1, i + 10) = result.phone
           /\ isValidIndianMobile(Str(result.phone))
        \/ /\ ~result.success /\ ~result.hasPhone /\ result.error # "null"

\* a number found inside a longer string of digits, not at its start
C27_Witness ==
    /\ result.returned /\ result.success
    /\ Len(StripNonDigits(text.v)) > 12
    /\ result.phone # SubSeq(StripNonDigits(text.v), 1, 10)
    /\ isValidIndianMobile(Str(result.phone))

----------------------------------------------------------------------------
\* Claims about extractPhoneNumber (checked under SpecPhone)

\* the maximal runs of digits of a string, as <<first, last>> positions
DigitRuns(t) ==
    {r \in (1..Len(t)) \X (1..Len(t)) :
        /\ r[1] <= r[2]
        /\ \A k \in r[1]..r[2] : t[k] \in 0..9
        /\ r[1] = 1 \/ t[r[1] - 1] \notin 0..9
        /\ r[2] = Len(t) \/ t[r[2] + 1] \notin 0..9}

\* the digits of a string hold a 10-digit window that starts with 6-9
HasMobileWindow(t) ==
    LET d == SelectSeq(t, LAMBDA c : c \in 0..9)
    IN  \E i \in 1..(Len(d) - 9) : d[i] \in 6..9

\* C7: for every 10-digit s starting with 6-9, extraction succeeds with phone = s
\* on the inputs s, "91" + s and "+91 " + s.
C7_CountryCodeVariants ==
    \A s \in Mobiles :
        (result.returned /\ text \in {Str(s), Str(<<9, 1>> \o s), Str(<<PLUS, 9, 1, SP>> \o s)})
            => (result.success /\ result.hasPhone /\ result.phone = s)

C7_Witness ==
    \E s \in Mobiles : result.returned /\ text = Str(<<PLUS, 9, 1, SP>> \o s)

\* C9: a null, empty or non-string input, or a text whose digits hold no
\* 10-digit window starting with 6-9, yields success = false, phone = null and
\* a non-null error.
C9_FailureIsAValue ==
    (result.returned /\ (text.t # "string" \/ text.v = <<>> \/ ~HasMobileWindow(text.v)))
        => (~result.success /\ ~result.hasPhone /\ result.error # "null")

C9_Witness ==
    result.returned /\ text = Str(<<1, 2, 3, 4, 5, 6>>) /\ ~result.success

\* C10: when the text holds exactly one digit run of 10 digits starting with
\* 6-9 and every other digit run is shorter than 10 digits, that run is what
\* extractPhoneNumber returns.
C10_OnlyRunIsReturned ==
    (result.returned /\ text.t = "string") =>
        LET t == text.v
            mobiles == {r \in DigitRuns(t) : r[2] - r[1] = 9 /\ t[r[1]] \in 6..9}
        IN  (/\ Cardinality(mobiles) = 1
             /\ \A r \in DigitRuns(t) \ mobiles : r[2] - r[1] < 9)
                => \A r \in mobiles :
                      result.success /\ result.phone = SubSeq(t, r[1], r[2])

----------------------------------------------------------------------------
\* Upstream orders, and the "active orders" filters of the two PIA clients.
\* A status string is a sequence of words; an id, a status or an altId that the
\* upstream record lacks is Undefined.

inactiveStatuses == {<<"Delivered">>, <<"Completed">>, <<"Cancelled">>, <<"Dispatched">>}

inactiveStatusIds == {8000, 9000, 9999}

\* order.status && inactiveStatuses.some(i => order.status.toLowerCase().includes(i.toLowerCase()))
IsInactiveStatus(status) ==
    /\ ~Falsy(status)
    /\ \E inactive \in inactiveStatuses :
           Includes(toLowerCase(status.v), toLowerCase(inactive))

\* order.statusId && inactiveStatusIds.includes(order.statusId)
IsInactiveStatusId(statusId) ==
    /\ ~Falsy(statusId)
    /\ statusId.t = "number" /\ statusId.v[1] \in inactiveStatusIds

\* a || b
Or(a, b) == IF Falsy(a) THEN b ELSE a

\* the guard "if (!order.altId) continue" of both branches:
\* TRUE when the record is kept
HasAltId_unchecked(order) == TRUE
HasAltId(order) == ~Falsy(order.altId)

\* the record pushed for one item of an order; parent is not a field of the
\* code's record: it remembers the position of the order the record came from
ItemRecord(order, item, parent) ==
    [jobId |-> order.altId,
     status |-> Or(item.status, Or(order.status, Words(<<"Processing">>))),
     statusId |-> Or(item.statusId, Or(order.statusId, Null)),
     productName |-> "Product",
     parent |-> parent]

\* the record pushed for an order without items
OrderRecord(order, parent) ==
    [jobId |-> order.altId,
     status |-> Or(order.status, Words(<<"Processing">>)),
     statusId |-> Or(order.statusId, Null),
     productName |-> "Order",
     parent |-> parent]

\* the inner loop "for (const item of order.items)", from item k on
RECURSIVE ItemRecords(_, _, _)
ItemRecords(order, k, parent) ==
    IF k > Len(order.items) THEN <<>>
    ELSE LET item == order.items[k]
             rest == ItemRecords(order, k + 1, parent)
         IN  IF IsInactiveStatus(item.status) \/ IsInactiveStatusId(item.statusId) THEN rest
             ELSE IF ~HasAltId(order) THEN rest
             ELSE <<ItemRecord(order, item, parent)>> \o rest

\* PIAClient.filterActiveOrders(orders): the outer loop, from order k on
RECURSIVE filterActiveOrdersFrom(_, _)
filterActiveOrdersFrom(orders, k) ==
    IF k > Len(orders) THEN <<>>
    ELSE LET order == orders[k]
             rest == filterActiveOrdersFrom(orders, k + 1)
         IN  IF IsInactiveStatus(order.status) \/ IsInactiveStatusId(order.statusId) THEN rest
             ELSE IF order.hasItems /\ Len(order.items) > 0
                  THEN ItemRecords(order, 1, k) \o rest
             ELSE IF ~HasAltId(order) THEN rest
             ELSE <<OrderRecord(order, k)>> \o rest

filterActiveOrders(orders) == filterActiveOrdersFrom(orders, 1)

\* PIAClient.getActiveOrders(orders) of pia-api-client.js:
\* orders.filter(o => o.statusId !== 8000 && o.statusId !== 8010)
getActiveOrders(orders) ==
    SelectSeq(orders, LAMBDA o : o.statusId # Num(8000) /\ o.statusId # Num(8010))

\* ---- the upstream lists tried

MaxOrdersIn == 2

PJ1 == Words(<<"PJ1">>)
PJ2 == Words(<<"PJ2">>)

RawOrder(statusId, status, altId, hasItems, items) ==
    [statusId |-> statusId, status |-> status, altId |-> altId,
     hasItems |-> hasItems, items |-> items]

RawItem(statusId, status) == [statusId |-> statusId, status |-> status]

ItemPool ==
    { RawItem(Undefined, Undefined), RawItem(Num(2000), Undefined),
      RawItem(Num(8010), Undefined), RawItem(Num(9999), Undefined),
      RawItem(Num(2000), Words(<<"Dispatched">>)) }

ItemLists ==
    {<<>>} \cup {<<it>> : it \in ItemPool}
           \cup {<<RawItem(Num(9000), Undefined), RawItem(Num(2000), Undefined)>>}

RawOrderPool ==
    { RawOrder(id, Printing, PJ1, FALSE, <<>>) :
        id \in {Undefined, Num(3000), Num(8000), Num(8010), Num(9000), Num(9999)} }
    \cup
    { RawOrder(Num(8010), Words(<<"Error", "in", "file">>), Undefined, FALSE, <<>>),
      RawOrder(Num(3000), Printing, Undefined, FALSE, <<>>),
      RawOrder(Num(3000), Printing, Words(<<>>), FALSE, <<>>),
      RawOrder(Num(3000), Words(<<"ORDER", "DELIVERED">>), PJ1, FALSE, <<>>),
      RawOrder(Undefined, Undefined, PJ2, FALSE, <<>>) }
    \cup
    { RawOrder(Num(3000), Printing, alt, TRUE, items) :
        alt \in {Undefined, PJ2}, items \in ItemLists }

\* PIA answers with one more order
Upstream(order) ==
    /\ filterPc = {}
    /\ Len(data) < MaxOrdersIn
    /\ data' = Append(data, order)
    /\ UNCHANGED <<activeOrders, activeRaw, filterPc, phoneVars, retryVars, standaloneVars, pageVars, serverVars, clientVars, concVars>>

\* one call piaClient.filterActiveOrders(data) (existing-order/pia-client.js)
FilterActiveOrders ==
    /\ "filterActiveOrders" \notin filterPc
    /\ activeOrders' = filterActiveOrders(data)
    /\ filterPc' = filterPc \cup {"filterActiveOrders"}
    /\ UNCHANGED <<data, activeRaw, phoneVars, retryVars, standaloneVars, pageVars, serverVars, clientVars, concVars>>

\* one call piaClient.getActiveOrders(data) (pia-api-client.js)
GetActiveOrders ==
    /\ "getActiveOrders" \notin filterPc
    /\ activeRaw' = getActiveOrders(data)
    /\ filterPc' = filterPc \cup {"getActiveOrders"}
    /\ UNCHANGED <<data, activeOrders, phoneVars, retryVars, standaloneVars, pageVars, serverVars, clientVars, concVars>>

InitFilter == PhoneIdle /\ StandaloneIdle /\ FilterIdle /\ PageIdle /\ ServerIdle
    /\ ClientIdle /\ ConcIdle /\ RetryIdle

NextFilter ==
    \/ \E order \in RawOrderPool : Upstream(order)
    \/ FilterActiveOrders
    \/ GetActiveOrders

SpecFilter == InitFilter /\ [][NextFilter]_vars

TerminalStatusIds == {Num(8000), Num(8010), Num(9000), Num(9999)}

\* C4: no record returned by filterActiveOrders or by getActiveOrders has a
\* statusId in {8000, 8010, 9000, 9999}.
C4_NoTerminalOrderReturned ==
    /\ \A i \in 1..Len(activeOrders) : activeOrders[i].statusId \notin TerminalStatusIds
    /\ \A i \in 1..Len(activeRaw) : activeRaw[i].statusId \notin TerminalStatusIds

\* C5: every record filterActiveOrders returns, built from an order or from
\* one of its items, has a non-empty jobId equal to the altId of the order it
\* came from.
C5_EveryRecordHasParentAltId ==
    \A i \in 1..Len(activeOrders) :
        LET r == activeOrders[i]
        IN  /\ r.jobId.t = "string" /\ r.jobId.v # <<>>
            /\ r.parent \in 1..Len(data)
            /\ r.jobId = data[r.parent].altId

C5_Witness ==
    /\ "filterActiveOrders" \in filterPc
    /\ \E i \in 1..Len(data) : data[i].hasItems /\ Len(data[i].items) > 0 /\ Falsy(data[i].altId)
    /\ \E i \in 1..Len(activeOrders) :
           LET from == data[activeOrders[i].parent]
           IN  from.hasItems /\ Len(from.items) > 0

----------------------------------------------------------------------------
\* order-status-formatter.js
\* A message text is the sequence of its parts (header, order blocks, footer,
\* ...), each a record of what the part prints. A date string is Str(<<day>>),
\* the day number it names; today is the day number of the call.

DateStr(day) == Str(<<day>>)

\* x >= k, x < k and x === k for a statusId: false when x is no number
NumGe(x, k) == x.t = "number" /\ x.v[1] >= k
NumLt(x, k) == x.t = "number" /\ x.v[1] < k
NumEq(x, k) == x.t = "number" /\ x.v[1] = k

formatDate(dateString, today) ==
    IF Falsy(dateString) THEN [kind |-> "N/A", day |-> 0]
    ELSE LET date == dateString.v[1]
             diffDays == date - today
         IN  IF date = today THEN [kind |-> "Today", day |-> 0]
             ELSE IF date = today + 1 THEN [kind |-> "Tomorrow", day |-> 0]
             ELSE IF diffDays >= 0 /\ diffDays <= 7 THEN [kind |-> "Weekday", day |-> date % 7]
             ELSE [kind |-> "MonD", day |-> date]

isDelayed_dueToday(order, today) ==
    IF Falsy(order.estimatedDelivery) THEN FALSE
    ELSE /\ order.estimatedDelivery.v[1] <= today
         /\ order.status # Words(<<"Delivered">>)
         /\ ~NumEq(order.statusId, 8000)

\* new Date(...) with setHours(0, 0, 0, 0) is the calendar day of the date,
\* and today that of the call
isDelayed(order, today) ==
    IF Falsy(order.estimatedDelivery) THEN FALSE
    ELSE /\ order.estimatedDelivery.v[1] < today
         /\ order.status # Words(<<"Delivered">>)
         /\ ~NumEq(order.statusId, 8000)

\* the branches of the counting loop of formatOrdersSummary
CountsDelivered(o) == NumGe(o.statusId, 8000) /\ NumEq(o.statusId, 8000)
CountsCancelled(o) == NumGe(o.statusId, 8000) /\ ~NumEq(o.statusId, 8000) /\ NumEq(o.statusId, 8010)
CountsShipping(o) == ~NumGe(o.statusId, 8000) /\ NumGe(o.statusId, 7000)
CountsReady(o) == ~NumGe(o.statusId, 7000) /\ NumGe(o.statusId, 5000)
CountsInProduction(o) == ~NumGe(o.statusId, 5000)

formatOrdersSummary(os) ==
    IF Len(os) = 0 THEN <<[kind |-> "text", is |-> "No orders found."]>>
    ELSE
    <<[kind |-> "summary",
       count |-> Len(os),
       delivered |-> Len(SelectSeq(os, CountsDelivered)),
       cancelled |-> Len(SelectSeq(os, CountsCancelled)),
       shipping |-> Len(SelectSeq(os, CountsShipping)),
       ready |-> Len(SelectSeq(os, CountsReady)),
       inProduction |-> Len(SelectSeq(os, CountsInProduction))]>>

\* Math.ceil(a / b) for a >= 0, b > 0
Ceil(a, b) == (a + b - 1) \div b


\* const startIdx = page * pageSize
PageStart_offByOne(p, pageSize) == p * pageSize + 1
PageStart(p, pageSize) == p * pageSize

\* orders.slice(startIdx, endIdx) as the 0-based indices it keeps
SliceIndices(n, startIdx, endIdx) ==
    LET lo == MinOf(startIdx, n)
        hi == MinOf(endIdx, n)
    IN  IF lo < hi THEN [i \in 1..(hi - lo) |-> lo + i - 1] ELSE <<>>

formatOrdersPage(os, p, pageSize, today) ==
    IF Len(os) = 0
    THEN [returned |-> TRUE, text |-> <<[kind |-> "text", is |-> "No orders found."]>>,
          hasMore |-> FALSE, hasPrev |-> FALSE, hasPrevSet |-> FALSE,
          currentPage |-> 0, totalPages |-> 0]
    ELSE
    LET totalOrders == Len(os)
        totalPages == Ceil(totalOrders, pageSize)
        startIdx == PageStart(p, pageSize)
        endIdx == MinOf(startIdx + pageSize, totalOrders)
        kept == SliceIndices(totalOrders, startIdx, endIdx)
        hasNext == endIdx < totalOrders
        hasPrev == p > 0
        header == [kind |-> "header", from |-> startIdx + 1, to |-> endIdx, of |-> totalOrders]
        blocks == [idx \in 1..Len(kept) |->
                     LET order == os[kept[idx] + 1]
                     IN  [kind |-> "order",
                          orderNum |-> startIdx + (idx - 1) + 1,
                          orderId |-> order.orderId,
                          status |-> order.status,
                          due |-> formatDate(order.estimatedDelivery, today),
                          delayed |-> isDelayed(order, today)]]
        footer == IF hasNext \/ hasPrev
                  THEN [kind |-> "navigation", previous |-> hasPrev, next |-> hasNext,
                        nextCount |-> IF hasNext THEN MinOf(pageSize, totalOrders - endIdx) ELSE 0]
                  ELSE [kind |-> "text", is |-> "Type order number to view full details."]
    IN  [returned |-> TRUE, text |-> <<header>> \o blocks \o <<footer>>,
         hasMore |-> hasNext, hasPrev |-> hasPrev, hasPrevSet |-> TRUE,
         currentPage |-> p, totalPages |-> totalPages]

formatOrderDetails(order, today) ==
    LET delayed == isDelayed(order, today)
        closing ==
            IF delayed THEN "DELAYED"
            ELSE IF NumGe(order.statusId, 7000) /\ NumLt(order.statusId, 8000) THEN "On the way!"
            ELSE IF NumEq(order.statusId, 8000) THEN "Delivered successfully!"
            ELSE IF NumEq(order.statusId, 8010) THEN "This order was cancelled."
            ELSE "Everything is on track!"
        reason ==
            /\ ~delayed /\ NumEq(order.statusId, 8010)
            /\ Includes(order.status.v, <<"Error">>) \/ Includes(order.status.v, <<"Issue">>)
    IN  <<[kind |-> "details",
           orderId |-> order.orderId,
           reference |-> IF Falsy(order.altId) THEN Undefined ELSE order.altId,
           status |-> order.status,
           placed |-> formatDate(order.orderDate, today),
           expected |-> formatDate(order.estimatedDelivery, today),
           closing |-> closing,
           reason |-> reason]>>

\* order.status.includes(...) of the cancelled branch throws a TypeError when
\* the order has no status string
formatOrderDetailsThrows(order, today) ==
    /\ ~isDelayed(order, today)
    /\ NumEq(order.statusId, 8010)
    /\ order.status.t # "string"

formatNoOrdersFound == <<[kind |-> "text", is |-> "I couldn't find any orders"]>>

formatOrdersForWhatsApp_paged(os, p, today) ==
    IF Len(os) = 0 THEN formatNoOrdersFound
    ELSE IF Len(os) = 1 THEN formatOrderDetails(os[1], today)
    ELSE formatOrdersSummary(os) \o formatOrdersPage(os, p, 3, today).text

formatOrdersForWhatsApp(os, p, today) ==
    IF Len(os) = 0 THEN formatNoOrdersFound
    ELSE IF Len(os) = 1 THEN formatOrderDetails(os[1], today)
    ELSE IF Len(os) <= 3
         THEN formatOrdersSummary(os) \o formatOrdersPage(os, 0, Len(os), today).text
    ELSE formatOrdersSummary(os) \o formatOrdersPage(os, p, 3, today).text

----------------------------------------------------------------------------
\* Calls of formatOrdersPage(orders, page, 3)

MaxPageOrders == 7
MaxPage == 2

ChatOrder(orderId, altId, status, statusId, estimatedDelivery) ==
    [orderId |-> orderId, altId |-> altId, status |-> status, statusId |-> statusId,
     estimatedDelivery |-> estimatedDelivery, orderDate |-> DateStr(1)]

\* the orders a list is built from; the k-th order of a list has orderId k
OrderTemplates(orderId) ==
    { ChatOrder(orderId, PJ1, Printing, Num(3000), DateStr(5)),
      ChatOrder(orderId, Undefined, Words(<<"Shipped">>), Num(7500), Undefined),
      ChatOrder(orderId, PJ2, Words(<<"Delivered">>), Num(8000), DateStr(2)) }

PageDays == {4, 20}

\* the caller's list grows by one order
AddOrder(order) ==
    /\ ~pageResult.returned
    /\ Len(orderList) < MaxPageOrders
    /\ orderList' = Append(orderList, order)
    /\ UNCHANGED <<pageArg, clockDay, pageResult, phoneVars, retryVars, standaloneVars, filterVars, serverVars, clientVars, concVars>>

\* one call formatOrdersPage(orderList, p, 3) on day td
FormatPage(p, td) ==
    /\ ~pageResult.returned
    /\ pageArg' = p
    /\ clockDay' = td
    /\ pageResult' = formatOrdersPage(orderList, p, 3, td)
    /\ UNCHANGED <<orderList, phoneVars, retryVars, standaloneVars, filterVars, serverVars, clientVars, concVars>>

InitPage == PhoneIdle /\ StandaloneIdle /\ FilterIdle /\ PageIdle /\ ServerIdle
    /\ ClientIdle /\ ConcIdle /\ RetryIdle

NextPage ==
    \/ \E order \in OrderTemplates(Len(orderList) + 1) : AddOrder(order)
    \/ \E p \in 0..MaxPage, td \in PageDays : FormatPage(p, td)

SpecPage == InitPage /\ [][NextPage]_vars

\* the order blocks of a message text
OrderBlocks(t) == SelectSeq(t, LAMBDA part : part.kind = "order")

\* C6: for a non-empty list of n orders and 0 <= page < ceil(n/3),
\* formatOrdersPage(orders, page, 3) returns currentPage = page and
\* totalPages = ceil(n/3), renders exactly the orders 3*page+1 .. min(3*page+3, n)
\* numbered from 3*page+1, with hasMore iff 3*page+3 < n and hasPrev iff page > 0.
C6_PageView ==
    LET n == Len(orderList)
        blocks == OrderBlocks(pageResult.text)
        shown == IF n - 3 * pageArg < 3 THEN n - 3 * pageArg ELSE 3
    IN  (pageResult.returned /\ n > 0 /\ 3 * pageArg < n) =>
            /\ pageResult.currentPage = pageArg
            /\ 3 * pageResult.totalPages >= n /\ 3 * (pageResult.totalPages - 1) < n
            /\ Len(blocks) = shown
            /\ \A k \in 1..shown :
                   /\ blocks[k].orderNum = 3 * pageArg + k
                   /\ blocks[k].orderId = orderList[3 * pageArg + k].orderId
            /\ pageResult.hasMore <=> (3 * pageArg + 3 < n)
            /\ pageResult.hasPrev <=> (pageArg > 0)

\* 5 orders, page 1: orders 4-5 only, hasMore false, hasPrev true
C6_Witness ==
    /\ pageResult.returned /\ Len(orderList) = 5 /\ pageArg = 1
    /\ Len(OrderBlocks(pageResult.text)) = 2
    /\ ~pageResult.hasMore /\ pageResult.hasPrev

----------------------------------------------------------------------------
\* pia-api-client.js (src/unnamed/part_005): searchByMobile and handleError.
\* An upstream answer is [kind, status, data]: kind "response" is an HTTP 2xx
\* whose body carries data ("null", "array" with the list in orders, or
\* "other"), kind "httpError" an error status, "timeout" an ECONNABORTED,
\* "network" any other failure.

Answer(kind, status, dataKind, os) ==
    [kind |-> kind, status |-> status, data |-> dataKind, orders |-> os]

SearchResult(success, os, count, error) ==
    [success |-> success, orders |-> os, count |-> count, error |-> error]

\* handleError with its tests changed
handleError_above500(answer) ==
    IF answer.kind = "httpError" /\ answer.status = 401
        THEN SearchResult(FALSE, <<>>, 0, "TOKEN_EXPIRED")
    ELSE IF answer.kind = "httpError" /\ answer.status = 404
        THEN SearchResult(TRUE, <<>>, 0, "null")
    ELSE IF answer.kind = "timeout"
        THEN SearchResult(FALSE, <<>>, 0, "TIMEOUT")
    ELSE IF answer.kind = "httpError" /\ answer.status > 500
        THEN SearchResult(FALSE, <<>>, 0, "SERVER_ERROR")
    ELSE SearchResult(FALSE, <<>>, 0, "UNKNOWN_ERROR")

handleError_404fails(answer) ==
    IF answer.kind = "httpError" /\ answer.status = 401
        THEN SearchResult(FALSE, <<>>, 0, "TOKEN_EXPIRED")
    ELSE IF answer.kind = "timeout"
        THEN SearchResult(FALSE, <<>>, 0, "TIMEOUT")
    ELSE IF answer.kind = "httpError" /\ answer.status >= 500
        THEN SearchResult(FALSE, <<>>, 0, "SERVER_ERROR")
    ELSE SearchResult(FALSE, <<>>, 0, "UNKNOWN_ERROR")

\* error.response is set for kind "httpError" only, error.code is ECONNABORTED
\* for kind "timeout" only; any other error (a network failure, a TypeError
\* thrown inside the try block) has neither
handleError(answer) ==
    IF answer.kind = "httpError" /\ answer.status = 401
        THEN SearchResult(FALSE, <<>>, 0, "TOKEN_EXPIRED")
    ELSE IF answer.kind = "httpError" /\ answer.status = 404
        THEN SearchResult(TRUE, <<>>, 0, "null")
    ELSE IF answer.kind = "timeout"
        THEN SearchResult(FALSE, <<>>, 0, "TIMEOUT")
    ELSE IF answer.kind = "httpError" /\ answer.status >= 500
        THEN SearchResult(FALSE, <<>>, 0, "SERVER_ERROR")
    ELSE SearchResult(FALSE, <<>>, 0, "UNKNOWN_ERROR")

\* searchByMobile without the Array.isArray test
searchByMobile_anyData(answer) ==
    IF answer.kind # "response" \/ answer.data = "nobody" THEN handleError(answer)
    ELSE IF answer.data = "null" THEN SearchResult(TRUE, <<>>, 0, "null")
    ELSE SearchResult(TRUE, answer.orders, Len(answer.orders), "null")

\* data "nobody": the response has no body to destructure, so line 55 throws
\* inside the try block and the catch hands the TypeError to handleError
searchByMobile(answer) ==
    IF answer.kind # "response" \/ answer.data = "nobody" THEN handleError(answer)
    ELSE IF answer.data = "null" THEN SearchResult(TRUE, <<>>, 0, "null")
    ELSE IF answer.data # "array"
        THEN SearchResult(FALSE, <<>>, 0, "Invalid response format from PIA")
    ELSE SearchResult(TRUE, answer.orders, Len(answer.orders), "null")

getOrdersByMobile(answer) == searchByMobile(answer)

----------------------------------------------------------------------------
\* existing-order/pia-client.js (src/unnamed/part_003): getActiveOrders(phone),
\* which returns a list or throws an Error

Returned(os) == [called |-> TRUE, threw |-> FALSE, error |-> "none", orders |-> os]
Threw(message) == [called |-> TRUE, threw |-> TRUE, error |-> message, orders |-> <<>>]

\* the catch block of getActiveOrders
piaRethrow(answer) ==
    IF answer.kind = "httpError" /\ answer.status = 401 THEN Threw("PIA_TOKEN_EXPIRED")
    ELSE IF answer.kind = "timeout" THEN Threw("PIA_TIMEOUT")
    ELSE Threw("PIA_API_ERROR")

piaGetActiveOrders_returnsEmptyOn404(answer) ==
    IF answer.kind = "httpError" /\ answer.status = 404 THEN Returned(<<>>)
    ELSE IF answer.kind # "response" \/ answer.data = "nobody" THEN piaRethrow(answer)
    ELSE IF answer.data # "array" \/ Len(answer.orders) = 0 THEN Returned(<<>>)
    ELSE Returned(filterActiveOrders(answer.orders))

piaGetActiveOrders(answer) ==
    IF answer.kind # "response" \/ answer.data = "nobody" THEN piaRethrow(answer)
    ELSE IF answer.data # "array" \/ Len(answer.orders) = 0 THEN Returned(<<>>)
    ELSE Returned(filterActiveOrders(answer.orders))

\* One upstream answer handed to both clients

ErrorStatuses == {400, 401, 403, 404, 429, 500, 502, 503}

ClientAnswers ==
    {Answer("response", 200, "array", <<order>>) : order \in RawOrderPool}
    \cup {Answer("response", 200, dataKind, <<>>) : dataKind \in {"array", "null", "other", "nobody"}}
    \cup {Answer("httpError", status, "none", <<>>) : status \in ErrorStatuses}
    \cup {Answer("timeout", 0, "none", <<>>), Answer("network", 0, "none", <<>>)}

\* the HTTP call to PIA settles
PiaAnswers(answer) ==
    /\ piaAnswer = NoAnswer
    /\ piaAnswer' = answer
    /\ UNCHANGED <<searchOutcome, fetchOutcome,
                   phoneVars, retryVars, standaloneVars, filterVars, pageVars, serverVars, concVars>>

\* getOrdersByMobile(mobile): every exception is caught inside searchByMobile
SearchByMobile ==
    /\ piaAnswer # NoAnswer /\ ~searchOutcome.called
    /\ searchOutcome' = [called |-> TRUE, threw |-> FALSE, value |-> getOrdersByMobile(piaAnswer)]
    /\ UNCHANGED <<piaAnswer, fetchOutcome,
                   phoneVars, retryVars, standaloneVars, filterVars, pageVars, serverVars, concVars>>

\* piaClient.getActiveOrders(phone)
PiaGetActiveOrders ==
    /\ piaAnswer # NoAnswer /\ ~fetchOutcome.called
    /\ fetchOutcome' = piaGetActiveOrders(piaAnswer)
    /\ UNCHANGED <<piaAnswer, searchOutcome,
                   phoneVars, retryVars, standaloneVars, filterVars, pageVars, serverVars, concVars>>

InitClient == PhoneIdle /\ StandaloneIdle /\ FilterIdle /\ PageIdle /\ ServerIdle
    /\ ClientIdle /\ ConcIdle /\ RetryIdle

NextClient ==
    \/ \E answer \in ClientAnswers : PiaAnswers(answer)
    \/ SearchByMobile
    \/ PiaGetActiveOrders

SpecClient == InitClient /\ [][NextClient]_vars

\* the upstream call itself failed (no 2xx response arrived)
CallFailed == piaAnswer.kind \in {"httpError", "timeout", "network"}

\* C11: for every failed upstream call other than a 404, getOrdersByMobile
\* returns success = false, no orders, and exactly the error kind of the
\* failure: TOKEN_EXPIRED for 401, TIMEOUT for a timeout, SERVER_ERROR for a
\* status >= 500, UNKNOWN_ERROR otherwise.
C11_FailureTaxonomy ==
    (searchOutcome.called /\ CallFailed /\ piaAnswer.status # 404) =>
        /\ ~searchOutcome.threw
        /\ searchOutcome.value.success = FALSE
        /\ searchOutcome.value.orders = <<>>
        /\ searchOutcome.value.error =
              IF piaAnswer.status = 401 THEN "TOKEN_EXPIRED"
              ELSE IF piaAnswer.kind = "timeout" THEN "TIMEOUT"
              ELSE IF piaAnswer.status >= 500 THEN "SERVER_ERROR"
              ELSE "UNKNOWN_ERROR"

C11_Witness ==
    /\ searchOutcome.called /\ piaAnswer.kind = "httpError" /\ piaAnswer.status = 500
    /\ searchOutcome.value.error = "SERVER_ERROR"

\* C12 as claimed: when data is neither null nor an array, getOrdersByMobile
\* returns success = false with error kind INVALID_RESPONSE_FORMAT.
C12_InvalidFormatKind ==
    (searchOutcome.called /\ piaAnswer.kind = "response" /\ piaAnswer.data = "other") =>
        /\ searchOutcome.value.success = FALSE
        /\ searchOutcome.value.error = "INVALID_RESPONSE_FORMAT"

\* C12 as amended: when data is neither null nor an array, getOrdersByMobile
\* returns success = false, no orders, count 0, and as its error the text
\* 'Invalid response format from PIA'.
C12_InvalidFormatMessage ==
    (searchOutcome.called /\ piaAnswer.kind = "response" /\ piaAnswer.data = "other") =>
        /\ searchOutcome.value.success = FALSE
        /\ searchOutcome.value.orders = <<>>
        /\ searchOutcome.value.count = 0
        /\ searchOutcome.value.error = "Invalid response format from PIA"

C12_Witness ==
    /\ searchOutcome.called /\ piaAnswer.kind = "response" /\ piaAnswer.data = "other"
    /\ ~searchOutcome.value.success

\* C13: data = null and HTTP 404 give success = true with orders = [],
\* count = 0 and error = null; success = false is returned only when the call
\* failed otherwise or the body is malformed.
C13_NoOrdersIsNotAFailure ==
    searchOutcome.called =>
        /\ ((piaAnswer.kind = "response" /\ piaAnswer.data = "null")
                \/ (piaAnswer.kind = "httpError" /\ piaAnswer.status = 404))
            => /\ searchOutcome.value.success = TRUE
               /\ searchOutcome.value.orders = <<>>
               /\ searchOutcome.value.count = 0
               /\ searchOutcome.value.error = "null"
        /\ searchOutcome.value.success = FALSE
            => \/ CallFailed /\ piaAnswer.status # 404
               \/ piaAnswer.kind = "response" /\ piaAnswer.data \in {"other", "nobody"}

C13_Witness ==
    /\ searchOutcome.called /\ piaAnswer.kind = "httpError" /\ piaAnswer.status = 404
    /\ searchOutcome.value.success

\* the upstream conditions a client has to expect
EmptyResult ==
    piaAnswer.kind = "response" /\ piaAnswer.data \in {"null", "array"} /\ piaAnswer.orders = <<>>
ExpectedCondition ==
    \/ EmptyResult
    \/ piaAnswer.kind = "httpError" /\ piaAnswer.status \in {401, 404}
    \/ piaAnswer.kind = "timeout"

\* C14 as claimed: for an empty result, 401, 404 and a timeout neither client
\* call raises an exception.
C14_NeitherClientThrows ==
    ExpectedCondition =>
        /\ searchOutcome.called => ~searchOutcome.threw
        /\ fetchOutcome.called => ~fetchOutcome.threw

\* C14 as amended: for an empty result, 401, 404 and a timeout
\* getOrdersByMobile returns a structured result and never throws;
\* piaClient.getActiveOrders returns [] for an empty result and throws
\* PIA_TOKEN_EXPIRED for 401, PIA_TIMEOUT for a timeout, PIA_API_ERROR for 404.
C14_OnlyChatClientNeverThrows ==
    ExpectedCondition =>
        /\ searchOutcome.called =>
              /\ ~searchOutcome.threw
              /\ searchOutcome.value.success = (EmptyResult \/ piaAnswer.status = 404)
        /\ fetchOutcome.called =>
              fetchOutcome =
                  IF EmptyResult THEN Returned(<<>>)
                  ELSE IF piaAnswer.status = 401 THEN Threw("PIA_TOKEN_EXPIRED")
                  ELSE IF piaAnswer.kind = "timeout" THEN Threw("PIA_TIMEOUT")
                  ELSE Threw("PIA_API_ERROR")

C14_Witness ==
    /\ searchOutcome.called /\ fetchOutcome.called
    /\ piaAnswer.kind = "httpError" /\ piaAnswer.status = 404
    /\ fetchOutcome.threw /\ ~searchOutcome.threw

\* The failure messages shown to the user, each as the sequence of its
\* sentences; a support phone number is a part of its own.
SupportNumbers == {"1800-XXX-XXXX", "9513734374"}

HasSupportNumber(message) == \E i \in 1..Len(message) : message[i] \in SupportNumbers

\* order-status-formatter.js, formatErrorMessage(errorType)
formatErrorMessage(errorType) ==
    IF errorType = "TOKEN_EXPIRED"
        THEN <<"Session expired.", "Please try again in a moment.">>
    ELSE IF errorType = "TIMEOUT"
        THEN <<"Request timed out.", "Please try again.">>
    ELSE IF errorType = "SERVER_ERROR"
        THEN <<"I'm having trouble accessing order details right now.",
               "Please try again in a few minutes.", "If urgent, contact support:",
               "1800-XXX-XXXX", "support@printo.in">>
    ELSE <<"Unable to fetch order status.", "Please try again.",
           "If the issue persists:", "Contact support:", "1800-XXX-XXXX">>

\* handleOrderStatusQuery: the message of each of its success: false returns.
\* outcome is "noPhone", "threw", or "searched" with the result of the lookup
orderStatusFailureMessage(outcome, searched) ==
    IF outcome = "noPhone"
        THEN <<"Please provide a valid 10-digit mobile number to check your order status.">>
    ELSE IF outcome = "threw"
        THEN <<"Unable to fetch order status.",
               "Please try again or contact support:", "1800-XXX-XXXX">>
    ELSE formatErrorMessage(searched.error)

\* webhook.js: the message of each error answer of /existing-order/status
StandaloneErrors == {"INVALID_PHONE", "PIA_ERROR", "INTERNAL_ERROR"}

standaloneErrorMessage(error) ==
    IF error = "INVALID_PHONE" THEN <<"Please provide a valid 10-digit phone number.">>
    ELSE IF error = "PIA_ERROR"
        THEN <<"Unable to fetch order status at the moment.", "Please try again or call",
               "9513734374", "for assistance.">>
    ELSE <<"Something went wrong.", "Please try again or call", "9513734374",
           "for assistance.">>

\* C17: every failure message shown to the user carries a support phone
\* number: after a failed lookup, the message formatErrorMessage gives for its
\* error kind (TOKEN_EXPIRED, TIMEOUT, SERVER_ERROR, UNKNOWN_ERROR) and the
\* message handleOrderStatusQuery returns for it; the two other failure
\* messages of handleOrderStatusQuery; and the message of an INVALID_PHONE,
\* PIA_ERROR or INTERNAL_ERROR answer of the standalone handler
C17_FailureMessagesCarrySupportNumber ==
    /\ (searchOutcome.called /\ ~searchOutcome.value.success)
           => /\ HasSupportNumber(formatErrorMessage(searchOutcome.value.error))
              /\ HasSupportNumber(orderStatusFailureMessage("searched", searchOutcome.value))
    /\ searchOutcome.called
           => \A outcome \in {"noPhone", "threw"} :
                  HasSupportNumber(orderStatusFailureMessage(outcome, searchOutcome.value))
    /\ response.error \in StandaloneErrors
           => HasSupportNumber(standaloneErrorMessage(response.error))

----------------------------------------------------------------------------
\* server.js: the session map, /api/chat, the session endpoints, the BotSpace
\* webhook and the hourly cleanup. Time is counted in hours. The conversation
\* history (session.messages) is not part of this state.

DayHours == 24
MaxNow == 48
MaxUpstream == 4

\* a session as /api/chat, /api/sessions/new and the webhook create it: an
\* object {userId, messages, metadata}; orderPage and currentOrders are not set
NewSessionRecord(time) ==
    [exists |-> TRUE,
     metadata |-> [lastActivity |-> time,
                   orderPage |-> Undefined,
                   hasCurrentOrders |-> FALSE, currentOrders |-> <<>>]]

\* the properties a session object itself carries (metadata holds the rest)
SessionObjectKeys == {"userId", "messages", "metadata"}

\* session.lastActivity, read on the session object
SessionLastActivity(session) ==
    IF "lastActivity" \in SessionObjectKeys THEN Num(session.metadata.lastActivity)
    ELSE Undefined

\* a < b of JavaScript: false when either side is undefined (NaN)
JsLess(a, b) == a.t = "number" /\ b.t = "number" /\ a.v[1] < b.v[1]

\* const page = session.metadata.orderPage || 0
CurrentPage_advanced(metadata) ==
    IF Falsy(metadata.orderPage) THEN 1 ELSE metadata.orderPage.v[1] + 1
CurrentPage(metadata) ==
    IF Falsy(metadata.orderPage) THEN 0 ELSE metadata.orderPage.v[1]

\* the day number of the clock
Today == now \div DayHours

\* the upstream order with orderId k: one in three has no altId
CatalogueOrder(k) ==
    IF k % 3 = 1 THEN ChatOrder(k, PJ1, Printing, Num(3000), DateStr(5))
    ELSE IF k % 3 = 2 THEN ChatOrder(k, Undefined, Words(<<"Shipped">>), Num(7500), Undefined)
    ELSE ChatOrder(k, PJ2, Words(<<"Delivered">>), Num(8000), DateStr(2))

\* a cancelled order that PIA returns without a status string
StatuslessOrder == ChatOrder(1, PJ1, Undefined, Num(8010), Undefined)

UpstreamLists ==
    {[i \in 1..n |-> CatalogueOrder(i)] : n \in 0..MaxUpstream} \cup {<<StatuslessOrder>>}

UpstreamAnswers ==
    {Answer("response", 200, "array", os) : os \in UpstreamLists}
    \cup {Answer("response", 200, "null", <<>>), Answer("response", 200, "other", <<>>),
          Answer("httpError", 404, "none", <<>>), Answer("httpError", 500, "none", <<>>)}

Questions ==
    {Str(<<>>), Str(<<LETTER, LETTER>>), Str(<<PLUS, 9, 1, SP, 9, 8, 7, 6, 5, 4, 3, 2, 1, 0>>)}

\* the reply of handleOrderStatusQuery when the number has no orders
NoOrdersMessage ==
    <<[kind |-> "text", is |-> "I couldn't find any orders for mobile number"]>>

\* the order lookup succeeds and its result can be
\* rendered
OrderFlowAnswers(answer) ==
    /\ getOrdersByMobile(answer).success
    /\ ~(/\ Len(getOrdersByMobile(answer).orders) = 1
         /\ formatOrderDetailsThrows(getOrdersByMobile(answer).orders[1], Today))

\* the language model is asked only when the question is not empty and the
\* order flow has not answered
LlmOutcomes(question, answer) ==
    IF Falsy(question) \/ (answer # NoAnswer /\ OrderFlowAnswers(answer))
    THEN {TRUE} ELSE BOOLEAN

\* PIA is asked only about a question that holds a phone number
AnswersTo(question) ==
    IF getPhoneFromBotspaceResponse(question) # <<>> THEN UpstreamAnswers ELSE {NoAnswer}

NoOrdersReply_failure(metadata) ==
    [success |-> FALSE, text |-> <<>>, ordersCount |-> 0, metadata |-> metadata]

\* the order flow answers a number without orders itself
NoOrdersReply(metadata) ==
    [success |-> TRUE, text |-> NoOrdersMessage, ordersCount |-> 0, metadata |-> metadata]

\* handleOrderStatusQuery(question, session): what it returns and the
\* metadata it leaves. answer is what PIA answers when it is asked
handleOrderStatusQuery(question, answer, metadata) ==
    LET failure == [success |-> FALSE, text |-> <<>>, ordersCount |-> 0, metadata |-> metadata]
        phone == getPhoneFromBotspaceResponse(question)
        searched == getOrdersByMobile(answer)
        p == CurrentPage(metadata)
    IN  IF phone = <<>> THEN failure
        ELSE IF ~searched.success THEN failure
        ELSE IF Len(searched.orders) = 0
        THEN NoOrdersReply(metadata)
        ELSE IF Len(searched.orders) = 1 /\ formatOrderDetailsThrows(searched.orders[1], Today)
        THEN failure
        ELSE [success |-> TRUE,
              text |-> formatOrdersForWhatsApp(searched.orders, p, Today),
              ordersCount |-> searched.count,
              metadata |-> [metadata EXCEPT !.hasCurrentOrders = TRUE,
                                            !.currentOrders = searched.orders,
                                            !.orderPage = Num(p)]]

Event(op, id, status, orderStatus, ordersCount, t) ==
    [op |-> op, sessionId |-> id, status |-> status, orderStatus |-> orderStatus,
     ordersCount |-> ordersCount, text |-> t,
     hadPhone |-> FALSE, upstream |-> NoAnswer, llmCalled |-> FALSE, logCall |-> "none",
     threw |-> "none"]

\* "Get or create session" followed by session.metadata.lastActivity = Date.now()
Touched(id) ==
    LET session == IF sessionConversations[id].exists THEN sessionConversations[id]
                   ELSE NewSessionRecord(now)
    IN  [session EXCEPT !.metadata.lastActivity = now]

\* google-sheets-logger.js, logConversation(data): how the promise it returns
\* settles when the append to the sheet succeeds ("logged"), fails ("failed")
\* or never completes ("pending"); a failure is caught inside and not rethrown
LogOutcomes == {"logged", "failed", "pending"}
logConversation(logOutcome) == IF logOutcome = "pending" THEN "pending" ELSE "resolved"

\* a request without a question is rejected before anything is logged
LogOutcomesFor(question) == IF Falsy(question) THEN {"logged"} ELSE LogOutcomes

\* sheetsLogger.logConversation({...}).catch(...): the handler does not await it
ResponseWaitsForLog_awaited == TRUE
ResponseWaitsForLog == FALSE

\* what the handler has answered once it has made its logConversation call
AfterLog(event, logOutcome) ==
    IF ResponseWaitsForLog /\ logConversation(logOutcome) = "pending"
    THEN [event EXCEPT !.status = 0, !.orderStatus = FALSE, !.ordersCount = 0,
                       !.text = <<>>, !.logCall = logConversation(logOutcome)]
    ELSE [event EXCEPT !.logCall = logConversation(logOutcome)]

\* the LLM path of /api/chat: the OpenAI call succeeds, or throws into the
\* catch block, which answers 500
LlmReply(id, llmOk, hadPhone, answer) ==
    [Event("chat", id, IF llmOk THEN 200 ELSE 500, FALSE, 0, <<>>)
        EXCEPT !.hadPhone = hadPhone, !.upstream = answer, !.llmCalled = TRUE]

\* app.post('/api/chat') from "Get or create session" on: the session map and
\* the answer the handler leaves. id is the session id of the body, or the
\* generated one when the body has none; answer is what PIA answers if asked;
\* llmOk tells whether the OpenAI call succeeds
ChatRouted(id, session, hadPhone, orderStatusResult, answer, llmOk, logOutcome) ==
        IF hadPhone /\ orderStatusResult.success
        THEN [sessions |-> [sessionConversations EXCEPT
                              ![id] = [session EXCEPT !.metadata = orderStatusResult.metadata]],
              event |-> AfterLog([Event("chat", id, 200, TRUE, orderStatusResult.ordersCount,
                                        orderStatusResult.text)
                                     EXCEPT !.hadPhone = TRUE, !.upstream = answer],
                                 logOutcome)]
        ELSE [sessions |-> [sessionConversations EXCEPT ![id] = session],
              event |-> AfterLog(LlmReply(id, llmOk, hadPhone,
                                          IF hadPhone THEN answer ELSE NoAnswer),
                                 logOutcome)]

ChatOutcome(id, question, answer, llmOk, logOutcome) ==
    IF Falsy(question)
    THEN [sessions |-> sessionConversations,
          event |-> Event("chat", "none", 400, FALSE, 0, <<>>)]
    ELSE ChatRouted(id, Touched(id), getPhoneFromBotspaceResponse(question) # <<>>,
                    handleOrderStatusQuery(question, answer, Touched(id).metadata),
                    answer, llmOk, logOutcome)

Chat(id, question, answer, llmOk, logOutcome) ==
    \E outcome \in {ChatOutcome(id, question, answer, llmOk, logOutcome)} :
        /\ sessionConversations' = outcome.sessions
        /\ lastEvent' = outcome.event
        /\ UNCHANGED now

\* a request that names its session
ChatWithSession(id, question, answer, llmOk, logOutcome) ==
    /\ Chat(id, question, answer, llmOk, logOutcome)
    /\ UNCHANGED <<phoneVars, retryVars, standaloneVars, filterVars, pageVars, clientVars, concVars>>

\* a request without sessionId: generateSessionId() yields an unused id
ChatWithoutSession(id, question, answer, llmOk, logOutcome) ==
    /\ ~sessionConversations[id].exists
    /\ Chat(id, question, answer, llmOk, logOutcome)
    /\ UNCHANGED <<phoneVars, retryVars, standaloneVars, filterVars, pageVars, clientVars, concVars>>

\* app.post('/api/sessions/new') with a userId
NewSession(id) ==
    /\ ~sessionConversations[id].exists
    /\ sessionConversations' = [sessionConversations EXCEPT ![id] = NewSessionRecord(now)]
    /\ lastEvent' = Event("newSession", id, 200, FALSE, 0, <<>>)
    /\ UNCHANGED <<now, phoneVars, retryVars, standaloneVars, filterVars, pageVars, clientVars, concVars>>

\* app.delete('/api/sessions/:sessionId')
ClearSession(id) ==
    /\ sessionConversations' = [sessionConversations EXCEPT ![id] = NoSession]
    /\ lastEvent' = Event("clearSession", id, 200, FALSE, 0, <<>>)
    /\ UNCHANGED <<now, phoneVars, retryVars, standaloneVars, filterVars, pageVars, clientVars, concVars>>

\* the steps of the webhook's try block that can throw, all of them after the
\* session was created or touched: buildPrompt, fs.writeFileSync of the prompt
\* log, and the OpenAI call
WebhookSteps == {"buildPrompt", "writeFileSync", "openai"}

\* the catch block of the webhook reads sessionId, a const declared inside the
\* try block and not in scope in the catch: evaluating it throws a
\* ReferenceError before res.status(500) is reached, and the async handler
\* rejects. Express 4 ignores the rejection and the request is never answered
\* ("hang"); Express 5 passes it to the default error handler, which answers
\* 500 with its own body ("defaultHandler")
CatchOutcomes == {"hang", "defaultHandler"}

\* the answer of the webhook when a step of the try block threw
WebhookFailure(id, step, catchOutcome) ==
    [Event("webhook", id,
           IF catchOutcome = "hang" THEN 0 ELSE 500,
           FALSE, 0,
           IF catchOutcome = "defaultHandler"
           THEN <<[kind |-> "text", is |-> "ReferenceError: sessionId is not defined"]>>
           ELSE <<>>)
     EXCEPT !.threw = step]

\* app.post('/api/botspace/webhook'), the whole handler. A request without a
\* message is answered 400 before the session is looked up; otherwise the
\* session of the sender is created or touched, then the prompt is built and
\* logged and the LLM answers, or one of these steps throws
BotspaceWebhook(id, hasMessage, step, catchOutcome) ==
    /\ sessionConversations' =
           IF hasMessage THEN [sessionConversations EXCEPT ![id] = Touched(id)]
           ELSE sessionConversations
    /\ lastEvent' =
           IF ~hasMessage
           THEN Event("webhook", id, 400, FALSE, 0, <<[kind |-> "text", is |-> "Message is required"]>>)
           ELSE IF step = "none"
           THEN Event("webhook", id, 200, FALSE, 0, <<[kind |-> "text", is |-> "response"]>>)
           ELSE WebhookFailure(id, step, catchOutcome)
    /\ UNCHANGED <<now, phoneVars, retryVars, standaloneVars, filterVars, pageVars, clientVars, concVars>>

\* the setInterval callback, which runs every hour
Cleanup ==
    LET oneDayAgo == Num(now - DayHours)
    IN  /\ sessionConversations' =
               [id \in SessionIds |->
                   IF /\ sessionConversations[id].exists
                      /\ JsLess(SessionLastActivity(sessionConversations[id]), oneDayAgo)
                   THEN NoSession ELSE sessionConversations[id]]
        /\ lastEvent' = Event("cleanup", "none", 0, FALSE, 0, <<>>)
        /\ UNCHANGED <<now, phoneVars, retryVars, standaloneVars, filterVars, pageVars, clientVars, concVars>>

\* two days pass
Tick ==
    /\ now + 2 * DayHours <= MaxNow
    /\ now' = now + 2 * DayHours
    /\ lastEvent' = Event("tick", "none", 0, FALSE, 0, <<>>)
    /\ UNCHANGED <<sessionConversations, phoneVars, retryVars, standaloneVars, filterVars, pageVars, clientVars, concVars>>

Init == PhoneIdle /\ StandaloneIdle /\ FilterIdle /\ PageIdle /\ ServerIdle
    /\ ClientIdle /\ ConcIdle /\ RetryIdle

Next ==
    \/ \E id \in SessionIds, question \in Questions :
         \E answer \in AnswersTo(question), logOutcome \in LogOutcomesFor(question) :
         \E llmOk \in LlmOutcomes(question, answer) :
            ChatWithSession(id, question, answer, llmOk, logOutcome)
    \/ \E id \in SessionIds, question \in Questions :
         \E answer \in AnswersTo(question), logOutcome \in LogOutcomesFor(question) :
         \E llmOk \in LlmOutcomes(question, answer) :
            ChatWithoutSession(id, question, answer, llmOk, logOutcome)
    \/ \E id \in SessionIds : NewSession(id)
    \/ \E id \in SessionIds : ClearSession(id)
    \/ \E id \in SessionIds, hasMessage \in BOOLEAN :
         \E step \in IF hasMessage THEN WebhookSteps \cup {"none"} ELSE {"none"} :
         \E catchOutcome \in IF step = "none" THEN {"hang"} ELSE CatchOutcomes :
            BotspaceWebhook(id, hasMessage, step, catchOutcome)
    \/ Cleanup
    \/ Tick

Spec == Init /\ [][Next]_vars

----------------------------------------------------------------------------
\* Claims about the session store and the /api/chat order flow

\* res.status(500).json({success: false, error: 'Failed to process message', ...})
FailedToProcess == <<[kind |-> "text", is |-> "Failed to process message"]>>

\* C29: every /api/botspace/webhook request receives exactly one HTTP
\* response, and when a step of the handler throws (prompt building, prompt-log
\* writing, the LLM call) the answer is 500 with error "Failed to process
\* message"
C29_WebhookAlwaysAnswers ==
    lastEvent.op = "webhook" =>
        /\ lastEvent.status # 0
        /\ lastEvent.threw # "none" =>
               /\ lastEvent.status = 500
               /\ lastEvent.text = FailedToProcess

\* the metadata of session id that a request starts from: a session that
\* does not exist is created first
MetadataBefore(id) ==
    IF sessionConversations[id].exists THEN sessionConversations[id].metadata
    ELSE NewSessionRecord(now).metadata

\* C28: handleOrderStatusQuery changes currentOrders and orderPage of the
\* session only when the upstream query succeeds with at least one order, and
\* then currentOrders becomes the fetched list and orderPage keeps its value
\* (0 if unset); with no phone number, a failed query or no orders both keep
\* their values
C28_OrdersStoredOnlyWhenFound ==
    [][\A id \in SessionIds :
          (lastEvent'.op = "chat" /\ lastEvent'.sessionId = id) =>
              LET searched == getOrdersByMobile(lastEvent'.upstream)
                  after == sessionConversations'[id].metadata
              IN  IF lastEvent'.hadPhone /\ searched.success /\ Len(searched.orders) >= 1
                  THEN /\ after.hasCurrentOrders
                       /\ after.currentOrders = searched.orders
                       /\ after.orderPage = Num(CurrentPage(MetadataBefore(id)))
                  ELSE /\ after.hasCurrentOrders = MetadataBefore(id).hasCurrentOrders
                       /\ after.currentOrders = MetadataBefore(id).currentOrders
                       /\ after.orderPage = MetadataBefore(id).orderPage]_vars

\* C1: every session that holds a non-empty currentOrders list has an
\* orderPage that is a valid zero-based page index for page size 3:
\* 0 <= orderPage < ceil(|currentOrders| / 3)
C1_OrderPageIsValidIndex ==
    \A id \in SessionIds :
        LET session == sessionConversations[id]
        IN  (session.exists /\ session.metadata.hasCurrentOrders
                /\ Len(session.metadata.currentOrders) > 0)
            => /\ session.metadata.orderPage.t = "number"
               /\ session.metadata.orderPage.v[1] >= 0
               /\ session.metadata.orderPage.v[1] < Ceil(Len(session.metadata.currentOrders), 3)

\* a chat request has just stored a list of more than three orders
C1_Witness ==
    /\ lastEvent.op = "chat" /\ lastEvent.orderStatus
    /\ \E id \in SessionIds :
          /\ lastEvent.sessionId = id
          /\ sessionConversations[id].exists
          /\ Len(sessionConversations[id].metadata.currentOrders) > 3
          /\ sessionConversations[id].metadata.orderPage = Num(0)

\* C2: whenever the cleanup runs, every session whose last activity is more
\* than 24 hours old is removed from the session map, and no session active
\* within the last 24 hours is removed
C2_CleanupEvictsExactlyTheStale ==
    [][lastEvent'.op = "cleanup" =>
          \A id \in SessionIds :
              sessionConversations[id].exists =>
                  ((sessionConversations[id].metadata.lastActivity < now - DayHours)
                      <=> ~sessionConversations'[id].exists)]_vars

\* C3: the text returned by the /api/chat order flow contains no order whose
\* altId is absent from the upstream record
C3_NoOrderWithoutAltIdRendered ==
    (lastEvent.op = "chat" /\ lastEvent.orderStatus) =>
        \A i \in 1..Len(lastEvent.text) :
            lastEvent.text[i].kind \in {"order", "details"} =>
                LET upstream == sessionConversations[lastEvent.sessionId].metadata.currentOrders
                IN  \A k \in 1..Len(upstream) :
                        upstream[k].orderId = lastEvent.text[i].orderId
                            => ~Falsy(upstream[k].altId)

\* C15 as stated: a /api/chat question from which a phone number can be
\* extracted is answered by the order flow (orderStatus = true) and the
\* language model is not called, whatever the upstream order query returns
C15_PhoneAlwaysOrderFlow ==
    (lastEvent.op = "chat" /\ lastEvent.hadPhone) =>
        (lastEvent.orderStatus /\ ~lastEvent.llmCalled)

\* C15 amended: a /api/chat question with an extractable phone number is
\* answered by the order flow, without calling the language model, exactly
\* when the order lookup succeeds and its result can be rendered; the reply
\* then has status 200, orderStatus = true and the count of the orders
\* found. Otherwise the request falls through to the language model and the
\* reply carries no orderStatus
C15_OrderFlowUnlessLookupFails ==
    (lastEvent.op = "chat" /\ lastEvent.hadPhone) =>
        IF OrderFlowAnswers(lastEvent.upstream)
        THEN /\ lastEvent.orderStatus /\ ~lastEvent.llmCalled
             /\ lastEvent.status = 200
             /\ lastEvent.ordersCount = Len(getOrdersByMobile(lastEvent.upstream).orders)
        ELSE ~lastEvent.orderStatus /\ lastEvent.llmCalled

\* a question with a phone number was answered by the order flow although
\* PIA had no orders for the number
C15_Witness ==
    /\ lastEvent.op = "chat" /\ lastEvent.hadPhone
    /\ lastEvent.upstream = Answer("httpError", 404, "none", <<>>)
    /\ lastEvent.orderStatus /\ ~lastEvent.llmCalled /\ lastEvent.ordersCount = 0

ChatReply(event) ==
    [status |-> event.status, orderStatus |-> event.orderStatus,
     ordersCount |-> event.ordersCount, text |-> event.text]

\* the two requests answer alike and leave the same session map
SameAnswer(one, other) ==
    /\ one.sessions = other.sessions
    /\ ChatReply(one.event) = ChatReply(other.event)
    /\ ChatReply(one.event).status \in {200, 400, 500}

----------------------------------------------------------------------------
\* server.js, app.post('/api/chat') under concurrent requests. Node runs a
\* handler without interruption from one await to the next, so a request takes
\* one step per stretch of code between two awaits. Each request of Requests
\* arrives once. No session is deleted here, so a session id names one session
\* object for the whole run.

\* sessionConversations.has/get/set(currentSessionId): the key a handler uses
SessionKey_shared(id) == "session_1"
SessionKey(id) == id

\* const page = session.metadata.orderPage || 0 (line 163) stands after the
\* await of line 140, in the block that writes orderPage (line 168)
PageReadBeforeAwait_hoisted == TRUE
PageReadBeforeAwait == FALSE

Unread == 0 - 1

ConcAnswers ==
    {Answer("response", 200, "array", [i \in 1..n |-> CatalogueOrder(i)]) :
        n \in {MaxUpstream}}
    \cup {Answer("httpError", 404, "none", <<>>), Answer("httpError", 500, "none", <<>>)}

\* a request in the handler: the session id of its body, its question, the
\* value of its local variable page (Unread before line 163), whether it has
\* written session.metadata.orderPage, what handleOrderStatusQuery returned to
\* it, and the status it answered with (0 before the answer); pricing tells
\* whether the question names a product (productKeywords is not empty), sent
\* is the number of history messages in the messages array built for the LLM
\* (NotSent before it is built)
NotSent == 0 - 1

Request(pc, id, question, pricing, page, wrote, success, status) ==
    [pc |-> pc, sessionId |-> id, question |-> question, pricing |-> pricing,
     page |-> page, wrote |-> wrote, success |-> success, status |-> status,
     sent |-> NotSent]

\* sessionHistory.splice(0, sessionHistory.length - 2) when it holds at least
\* four messages; an entry of history stands for the two messages of one
\* exchange
Spliced(messages) ==
    IF Len(messages) >= 2 THEN SubSeq(messages, Len(messages), Len(messages)) ELSE messages

\* lines 280-317 up to the next await: the splice, then either the await of
\* fetchProductPricing or, with no product keyword, the messages array with
\* ...sessionHistory and the await of the OpenAI call
StartLlmPath(request, messages) ==
    [request |-> IF request.pricing THEN [request EXCEPT !.pc = "awaitPricing"]
                 ELSE [request EXCEPT !.pc = "awaitLlm",
                                      !.sent = 2 * Len(Spliced(messages))],
     messages |-> Spliced(messages)]

\* lines 196-247 (and 280-317 when the question holds no phone number): up to
\* the first await
Receive(r, id, question, pricing) ==
    /\ requests[r].pc = "idle"
    /\ IF Falsy(question)
       THEN /\ requests' = [requests EXCEPT
                              ![r] = Request("done", id, question, FALSE, Unread, FALSE,
                                             FALSE, 400)]
            /\ UNCHANGED <<sessionConversations, history>>
       ELSE LET session == Touched(SessionKey(id))
                hasPhone == getPhoneFromBotspaceResponse(question) # <<>>
                request == Request("awaitPia", id, question, pricing,
                                   IF hasPhone /\ PageReadBeforeAwait
                                   THEN CurrentPage(session.metadata) ELSE Unread,
                                   FALSE, FALSE, 0)
                llmPath == StartLlmPath(request, history[SessionKey(id)])
            IN  /\ sessionConversations' =
                       [sessionConversations EXCEPT ![SessionKey(id)] = session]
                /\ requests' = [requests EXCEPT
                                  ![r] = IF hasPhone THEN request ELSE llmPath.request]
                /\ history' = IF hasPhone THEN history
                              ELSE [history EXCEPT ![SessionKey(id)] = llmPath.messages]
    /\ UNCHANGED <<now, lastEvent>>
    /\ UNCHANGED <<phoneVars, retryVars, standaloneVars, filterVars, pageVars, clientVars>>

\* handleOrderStatusQuery from the return of getOrdersByMobile (line 140) to
\* its own return
PiaReturns(r, answer) ==
    /\ requests[r].pc = "awaitPia"
    /\ LET key == SessionKey(requests[r].sessionId)
           metadata == sessionConversations[key].metadata
           ret == handleOrderStatusQuery(requests[r].question, answer, metadata)
           stores == ret.success /\ ret.ordersCount > 0
           page == IF PageReadBeforeAwait THEN requests[r].page ELSE CurrentPage(metadata)
       IN  /\ sessionConversations' =
                  [sessionConversations EXCEPT ![key].metadata =
                      IF stores THEN [ret.metadata EXCEPT !.orderPage = Num(page)]
                      ELSE ret.metadata]
           /\ requests' = [requests EXCEPT
                             ![r].pc = "orderReturned",
                             ![r].page = IF stores THEN page ELSE @,
                             ![r].wrote = stores,
                             ![r].success = ret.success]
    /\ UNCHANGED <<now, lastEvent, history>>
    /\ UNCHANGED <<phoneVars, retryVars, standaloneVars, filterVars, pageVars, clientVars>>

\* lines 249-317: the handler resumes after await handleOrderStatusQuery
OrderFlowResumes(r) ==
    /\ requests[r].pc = "orderReturned"
    /\ LET key == SessionKey(requests[r].sessionId)
       IN  IF requests[r].success
           THEN /\ history' = [history EXCEPT ![key] = Append(@, r)]
                /\ requests' = [requests EXCEPT ![r].pc = "done", ![r].status = 200]
           ELSE /\ history' = [history EXCEPT
                                 ![key] = StartLlmPath(requests[r], @).messages]
                /\ requests' = [requests EXCEPT
                                  ![r] = StartLlmPath(requests[r], history[key]).request]
    /\ UNCHANGED <<now, lastEvent, sessionConversations>>
    /\ UNCHANGED <<phoneVars, retryVars, standaloneVars, filterVars, pageVars, clientVars>>

\* lines 293-317: fetchProductPricing returns or throws into its own catch;
\* the messages array is built with ...sessionHistory as it is now
PricingReturns(r) ==
    /\ requests[r].pc = "awaitPricing"
    /\ requests' = [requests EXCEPT
                      ![r].pc = "awaitLlm",
                      ![r].sent = 2 * Len(history[SessionKey(requests[r].sessionId)])]
    /\ UNCHANGED <<now, lastEvent, sessionConversations, history>>
    /\ UNCHANGED <<phoneVars, retryVars, standaloneVars, filterVars, pageVars, clientVars>>

\* lines 317-390: the OpenAI call returns, or throws into the catch block
LlmReturns(r, llmOk) ==
    /\ requests[r].pc = "awaitLlm"
    /\ LET key == SessionKey(requests[r].sessionId)
       IN  IF llmOk
           THEN /\ history' = [history EXCEPT ![key] = Append(@, r)]
                /\ requests' = [requests EXCEPT ![r].pc = "done", ![r].status = 200]
           ELSE /\ requests' = [requests EXCEPT ![r].pc = "done", ![r].status = 500]
                /\ UNCHANGED history
    /\ UNCHANGED <<now, lastEvent, sessionConversations>>
    /\ UNCHANGED <<phoneVars, retryVars, standaloneVars, filterVars, pageVars, clientVars>>

\* the server has just started, or session_1 holds the exchange of one
\* earlier /api/chat request (request 0) that has been answered
InitConc ==
    /\ PhoneIdle /\ StandaloneIdle /\ FilterIdle /\ PageIdle /\ ClientIdle /\ RetryIdle
    /\ now = 0 /\ lastEvent = NoEvent
    /\ requests = [r \in Requests |-> NoRequest]
    /\ \E earlier \in BOOLEAN :
          /\ sessionConversations =
                 [id \in SessionIds |-> IF earlier /\ id = "session_1"
                                        THEN NewSessionRecord(0) ELSE NoSession]
          /\ history = [id \in SessionIds |-> IF earlier /\ id = "session_1"
                                               THEN <<0>> ELSE <<>>]

NextConc ==
    \/ \E r \in Requests, id \in SessionIds, question \in Questions, pricing \in BOOLEAN :
          Receive(r, id, question, pricing)
    \/ \E r \in Requests : PricingReturns(r)
    \/ \E r \in Requests, answer \in ConcAnswers : PiaReturns(r, answer)
    \/ \E r \in Requests : OrderFlowResumes(r)
    \/ \E r \in Requests, llmOk \in BOOLEAN : LlmReturns(r, llmOk)

SpecConc == InitConc /\ [][NextConc]_vars

\* the event loop runs every continuation that is ready
SpecConcFair == SpecConc /\ WF_vars(NextConc)

\* C19: under every interleaving of concurrent /api/chat requests, a step of
\* a request on session A leaves the record (metadata) and the messages of
\* every other session B as they were
C19_SessionIsolation ==
    [][\A r \in Requests :
          requests'[r] # requests[r] =>
              \A id \in SessionIds :
                  id # requests'[r].sessionId =>
                      /\ sessionConversations'[id] = sessionConversations[id]
                      /\ history'[id] = history[id]]_vars

\* two requests on different sessions ran one inside the other and each
\* session holds its own request's exchange and orders
C19_Witness ==
    /\ requests[1].pc = "done" /\ requests[2].pc = "orderReturned"
    /\ requests[1].sessionId = "session_1" /\ requests[2].sessionId = "session_2"
    /\ history["session_1"] = <<1>> /\ history["session_2"] = <<>>
    /\ Len(sessionConversations["session_1"].metadata.currentOrders) > 1
    /\ Len(sessionConversations["session_2"].metadata.currentOrders) > 1

\* C22: on every /api/chat request that reaches the LLM, after any sequence
\* and any interleaving of earlier requests on the same session, the messages
\* array holds, between the system prompt and the new question, at most 2
\* history messages
C22_HistorySentIsLastExchange ==
    \A r \in Requests :
        (requests[r].pc \in {"awaitLlm", "done"} /\ requests[r].sent # NotSent)
            => requests[r].sent <= 2

\* two requests of one session have both read orderPage and neither has
\* written it back
RaceState ==
    \E r1, r2 \in Requests :
        /\ r1 # r2
        /\ requests[r1].pc \notin {"idle", "done"} /\ requests[r2].pc \notin {"idle", "done"}
        /\ requests[r1].sessionId = requests[r2].sessionId
        /\ requests[r1].page # Unread /\ ~requests[r1].wrote
        /\ requests[r2].page # Unread /\ ~requests[r2].wrote

----------------------------------------------------------------------------
\* botspace-service.js, sendMessageWithRetry(phone, message, maxRetries): one
\* step per run of the code from one await to the next. A send attempt settles
\* (the axios client has a 10 second timeout) and a sleep ends.

MaxRetriesBound == 3

\* the error types _handleError gives a failed send
SendErrors == {"TIMEOUT", "RATE_LIMIT", "SERVER_ERROR", "NETWORK_ERROR"}

\* Math.pow(2, attempt - 1) * 1000 milliseconds, in seconds
Backoff_constant(attempt) == 1
Backoff(attempt) == 2 ^ (attempt - 1)

\* the call up to its first await: the loop test with attempt = 1, then either
\* the first sendMessage or, the loop being skipped, throw lastError
CallSendMessageWithRetry(maxRetries) ==
    /\ retry.pc = "idle"
    /\ retry' = [pc |-> IF 1 <= maxRetries THEN "sending" ELSE "done",
                 maxRetries |-> maxRetries, attempt |-> 1, attempts |-> 0,
                 failures |-> <<>>, waits |-> <<>>,
                 outcome |-> IF 1 <= maxRetries THEN "none" ELSE "threw",
                 value |-> "undefined"]
    /\ UNCHANGED <<phoneVars, standaloneVars, filterVars, pageVars, serverVars, clientVars,
                   concVars>>

\* await this.sendMessage(phone, message) returns: the call returns its value
SendSucceeds ==
    /\ retry.pc = "sending"
    /\ retry' = [retry EXCEPT !.pc = "done", !.attempts = @ + 1,
                              !.outcome = "returned", !.value = "sent"]
    /\ UNCHANGED <<phoneVars, standaloneVars, filterVars, pageVars, serverVars, clientVars,
                   concVars>>

\* await this.sendMessage(phone, message) throws: the catch block, and when
\* no attempt remains the end of the loop and throw lastError
SendFails(error) ==
    /\ retry.pc = "sending"
    /\ retry' = IF retry.attempt < retry.maxRetries
                THEN [retry EXCEPT !.pc = "sleeping", !.attempts = @ + 1,
                                   !.failures = Append(@, error),
                                   !.waits = Append(@, Backoff(retry.attempt))]
                ELSE [retry EXCEPT !.pc = "done", !.attempts = @ + 1,
                                   !.failures = Append(@, error),
                                   !.attempt = @ + 1,
                                   !.outcome = "threw", !.value = error]
    /\ UNCHANGED <<phoneVars, standaloneVars, filterVars, pageVars, serverVars, clientVars,
                   concVars>>

\* await this._sleep(...) returns: attempt++, the loop test, the next send
SleepEnds ==
    /\ retry.pc = "sleeping"
    /\ retry' = [retry EXCEPT !.pc = "sending", !.attempt = @ + 1]
    /\ UNCHANGED <<phoneVars, standaloneVars, filterVars, pageVars, serverVars, clientVars,
                   concVars>>

InitRetry == PhoneIdle /\ StandaloneIdle /\ FilterIdle /\ PageIdle /\ ServerIdle
    /\ ClientIdle /\ ConcIdle /\ RetryIdle

NextRetry ==
    \/ \E maxRetries \in 0..MaxRetriesBound : CallSendMessageWithRetry(maxRetries)
    \/ SendSucceeds
    \/ \E error \in SendErrors : SendFails(error)
    \/ SleepEnds

\* every pending send settles and every sleep ends
SpecRetry ==
    /\ InitRetry /\ [][NextRetry]_vars
    /\ WF_vars(SendSucceeds \/ \E error \in SendErrors : SendFails(error))
    /\ WF_vars(SleepEnds)

RetryBounded ==
    retry.pc # "idle" =>
        /\ retry.attempts <= retry.maxRetries
        /\ Len(retry.failures) <= retry.attempts
        /\ Len(retry.waits) <= Len(retry.failures)
        /\ \A k \in 1..Len(retry.waits) : retry.waits[k] = 2 ^ (k - 1) /\ k < retry.maxRetries
        /\ retry.pc \in {"sending", "sleeping"} =>
              /\ retry.attempts = Len(retry.failures)
              /\ Len(retry.waits) = Len(retry.failures)
        /\ (retry.pc = "done" /\ retry.outcome = "returned") =>
              /\ retry.attempts = Len(retry.failures) + 1
              /\ Len(retry.waits) = Len(retry.failures)
              /\ retry.value = "sent"
        /\ (retry.pc = "done" /\ retry.outcome = "threw") =>
              /\ retry.attempts = retry.maxRetries
              /\ Len(retry.failures) = retry.maxRetries
              /\ retry.maxRetries >= 1 =>
                    /\ Len(retry.waits) = retry.maxRetries - 1
                    /\ retry.value = retry.failures[Len(retry.failures)]

----------------------------------------------------------------------------
\* Calls of formatOrdersForWhatsApp(orders, page) of order-status-formatter.js

MaxFormatOrders == 3

\* the orders a list handed to formatOrdersForWhatsApp is built from: the
\* statusIds the formatter tests for, and the two other terminal statusIds the
\* order client knows (9000 Completed, 9999 Cancelled)
FormatTemplates(orderId) ==
    { ChatOrder(orderId, PJ1, Printing, Num(3000), DateStr(5)),
      ChatOrder(orderId, PJ1, Words(<<"Ready">>), Num(5500), Undefined),
      ChatOrder(orderId, Undefined, Words(<<"Shipped">>), Num(7500), DateStr(5)),
      ChatOrder(orderId, PJ2, Words(<<"Delivered">>), Num(7900), DateStr(2)),
      ChatOrder(orderId, PJ2, Words(<<"Delivered">>), Num(8000), DateStr(2)),
      ChatOrder(orderId, PJ1, Words(<<"Cancelled">>), Num(8010), DateStr(2)),
      ChatOrder(orderId, PJ2, Words(<<"Cancelled">>), Num(9999), Undefined) }

FormatDays == {4, 5, 20}

\* the caller's list grows by one order
AddFormatOrder(order) ==
    /\ ~pageResult.returned
    /\ Len(orderList) < MaxFormatOrders
    /\ orderList' = Append(orderList, order)
    /\ UNCHANGED <<pageArg, clockDay, pageResult, phoneVars, retryVars, standaloneVars,
                   filterVars, serverVars, clientVars, concVars>>

\* one call formatOrdersForWhatsApp(orderList, p) on day td
FormatOrdersForWhatsApp(p, td) ==
    /\ ~pageResult.returned
    /\ orderList # <<>>
    /\ pageArg' = p
    /\ clockDay' = td
    /\ pageResult' = [NoPageResult EXCEPT !.returned = TRUE,
                                          !.text = formatOrdersForWhatsApp(orderList, p, td)]
    /\ UNCHANGED <<orderList, phoneVars, retryVars, standaloneVars, filterVars, serverVars,
                   clientVars, concVars>>

InitFormat == PhoneIdle /\ StandaloneIdle /\ FilterIdle /\ PageIdle /\ ServerIdle
    /\ ClientIdle /\ ConcIdle /\ RetryIdle

NextFormat ==
    \/ \E order \in FormatTemplates(Len(orderList) + 1) : AddFormatOrder(order)
    \/ \E p \in 0..MaxPage, td \in FormatDays : FormatOrdersForWhatsApp(p, td)

SpecFormat == InitFormat /\ [][NextFormat]_vars

\* the order of the list that a part of the text is about
OrderOf(part) == orderList[CHOOSE k \in 1..Len(orderList) : orderList[k].orderId = part.orderId]

\* the estimated delivery date lies strictly before today, the status is not
\* "Delivered" and the statusId is not 8000
PastDueUndelivered(order, today) ==
    /\ order.estimatedDelivery.t = "string"
    /\ order.estimatedDelivery.v[1] < today
    /\ order.status # Words(<<"Delivered">>)
    /\ ~(order.statusId.t = "number" /\ order.statusId.v[1] = 8000)

\* C23: isDelayed(order) is true if and only if the order has an
\* estimatedDelivery strictly before today, its status is not "Delivered" and
\* its statusId is not 8000; it is false when estimatedDelivery is absent,
\* today or in the future. Every order block and every detail view of a
\* formatted text shows the delay exactly for such orders
C23_DelayedIffPastDueUndelivered ==
    pageResult.returned =>
        \A i \in 1..Len(pageResult.text) :
            LET part == pageResult.text[i]
            IN  /\ part.kind = "order" =>
                      (part.delayed <=> PastDueUndelivered(OrderOf(part), clockDay))
                /\ part.kind = "details" =>
                      ((part.closing = "DELAYED")
                          <=> PastDueUndelivered(OrderOf(part), clockDay))

\* one text shows an order due today as not delayed and a past-due one as delayed
C23_Witness ==
    /\ pageResult.returned /\ clockDay = 5 /\ Len(orderList) = 2
    /\ \E i, j \in 1..Len(pageResult.text) :
          /\ pageResult.text[i].kind = "order" /\ pageResult.text[j].kind = "order"
          /\ OrderOf(pageResult.text[i]).estimatedDelivery = DateStr(5)
          /\ ~pageResult.text[i].delayed
          /\ OrderOf(pageResult.text[j]).estimatedDelivery = DateStr(2)
          /\ pageResult.text[j].delayed

\* C24: the detail view of a single order closes with the delay notice
\* whenever isDelayed(order) holds; otherwise with "On the way" for
\* 7000 <= statusId < 8000, "Delivered successfully" for 8000, "cancelled" for
\* 8010, and with "Everything is on track" exactly when statusId < 7000
C24_ClosingLineByStatus ==
    (pageResult.returned /\ Len(orderList) = 1) =>
        LET closing == pageResult.text[1].closing
            statusId == orderList[1].statusId.v[1]
        IN  IF isDelayed(orderList[1], clockDay) THEN closing = "DELAYED"
            ELSE /\ (statusId >= 7000 /\ statusId < 8000) => closing = "On the way!"
                 /\ statusId = 8000 => closing = "Delivered successfully!"
                 /\ statusId = 8010 => closing = "This order was cancelled."
                 /\ (closing = "Everything is on track!") <=> statusId < 7000

\* C30: for every non-empty order list the counts of formatOrdersSummary
\* (shipping, ready, in production, delivered, cancelled) sum to the number N
\* of its "I found N orders" line, and every order is counted in exactly one
\* category
C30_SummaryCountsEveryOrder ==
    (pageResult.returned /\ Len(orderList) >= 2) =>
        LET summary == pageResult.text[1]
        IN  /\ summary.kind = "summary"
            /\ summary.count = Len(orderList)
            /\ summary.shipping + summary.ready + summary.inProduction
                  + summary.delivered + summary.cancelled = summary.count
            /\ \A k \in 1..Len(orderList) :
                  Cardinality({c \in {"delivered", "cancelled", "shipping", "ready",
                                     "inProduction"} :
                      CASE c = "delivered" -> CountsDelivered(orderList[k])
                        [] c = "cancelled" -> CountsCancelled(orderList[k])
                        [] c = "shipping" -> CountsShipping(orderList[k])
                        [] c = "ready" -> CountsReady(orderList[k])
                        [] OTHER -> CountsInProduction(orderList[k])}) = 1

====
